---- MODULE Spec2Model ----
(***************************************************************************)
(* Model of the /api/stocks route of the stock sentiment analyzer: the     *)
(* in-memory per-client rate limiter, the GET handler (collect, score,     *)
(* combine, rank) and the POST handler (collect only).                     *)
(*                                                                         *)
(* Conventions.  A Date is [m, d] (month, day of month); getDate() is the  *)
(* field d.  An optional value (T | null) is a sequence of length 0 or 1.  *)
(* A sentiment score is an integer number of 1/ScoreScale units, a mean is *)
(* the pair totalSentiment / count and is compared by cross products.      *)
(* A headline text is a pair <<"title", x>> or <<"placeholder", ticker>>.  *)
(***************************************************************************)
EXTENDS Integers, Sequences, FiniteSets, TLC

VARIABLES
    today,       \* the wall-clock date that new Date() reads
    apiKey,      \* process.env.OPENAI_API_KEY is set
    rateLimits,  \* the Map rateLimits: client key -> [count, lastReset]
    req,         \* the requests in flight, one record per slot
    fetch,       \* one call of getStockData: its attempts and what it returned
    config,      \* the contents of config.json
    sync,        \* one POST /api/sync-tickers: its body and its response
    tasks,       \* the per-ticker tasks of one GET: timers and outcomes
    client,      \* the page of one browser: its state and its localStorage
    ingest       \* one GET /api/ingest: its per-ticker tasks and its response

vars ==
    <<today, apiKey, rateLimits, req, fetch, config, sync, tasks, client, ingest>>

----------------------------------------------------------------------------
(* Program constants *)

DEFAULT_TICKERS == <<"AAPL", "MSFT", "GOOGL", "AMZN", "META">>

MAX_REQUESTS_PER_DAY == 5

VALID_TIME_RANGES == {"1d", "5d", "1mo", "1y"}

\* the literal 10 of  .slice(0, 10 - customTickerResults.length)
ResultCap == 10

----------------------------------------------------------------------------
(* Bounds of the model *)

\* the calendar has MaxMonth months of DaysPerMonth days
MaxMonth == 2

DaysPerMonth == 2

\* requests handled concurrently
MaxInFlight == 2

\* scores are multiples of 1/ScoreScale; ScoreScale stands for 1.0
ScoreScale == 2

\* tickers of one request whose news search may come back empty or fail
MaxNewsFail == 1

\* caller tickers of a small request (with repetitions)
MaxCustom == 2

\* caller tickers of a large request (distinct)
MaxExplicit == 12

\* items of a completion drawn freely from the item pool
MaxItems == 3

\* timestamps of a chart series
MaxPoints == 3

\* fields of details the provider leaves out
MaxAbsent == 2

\* fields of details the provider reports as 0
MaxZero == 1

----------------------------------------------------------------------------
(* Helpers on sequences *)

Range(f) == {f[i] : i \in DOMAIN f}

RECURSIVE FlatMap(_, _)
\* Array.flatMap over a sequence of sequences
FlatMap(ss, i) ==
    IF i > Len(ss) THEN <<>> ELSE ss[i] \o FlatMap(ss, i + 1)

RECURSIVE Dedupe(_, _)
\* [...new Set(s)]: first occurrences, in insertion order
Dedupe(s, seen) ==
    IF s = <<>> THEN <<>>
    ELSE IF Head(s) \in seen THEN Dedupe(Tail(s), seen)
    ELSE <<Head(s)>> \o Dedupe(Tail(s), seen \cup {Head(s)})

\* Array.slice(0, n), with JavaScript's meaning of a negative end
\* (an offset from the end of the array)
Slice0(s, n) ==
    LET e == IF n < 0 THEN (IF Len(s) + n < 0 THEN 0 ELSE Len(s) + n)
             ELSE IF n > Len(s) THEN Len(s) ELSE n
    IN  SubSeq(s, 1, e)

----------------------------------------------------------------------------
(* Dates *)

FirstDate == [m |-> 1, d |-> 1]

LastDate == [m |-> MaxMonth, d |-> DaysPerMonth]

NextDate(dt) ==
    IF dt.d < DaysPerMonth THEN [dt EXCEPT !.d = dt.d + 1]
    ELSE [m |-> dt.m + 1, d |-> 1]

\* Date.prototype.getDate(): the day of the month
GetDate(dt) == dt.d

----------------------------------------------------------------------------
(* Rate limiter *)

\* getRateLimit admitting while remaining >= 0 (off by one)
getRateLimit_offByOne(rl, ip, now) ==
    IF ip \notin DOMAIN rl
    THEN [map |-> [k \in DOMAIN rl \cup {ip} |->
                     IF k = ip THEN [count |-> 0, lastReset |-> now] ELSE rl[k]],
          remaining |-> MAX_REQUESTS_PER_DAY, allowed |-> TRUE]
    ELSE LET limit == IF GetDate(rl[ip].lastReset) # GetDate(now)
                      THEN [count |-> 0, lastReset |-> now] ELSE rl[ip]
             remaining == MAX_REQUESTS_PER_DAY - limit.count
         IN  [map |-> [rl EXCEPT ![ip] = limit],
              remaining |-> remaining, allowed |-> remaining >= 0]

\* getRateLimit counting the check itself on a record it does not reset
getRateLimit_countsCheck(rl, ip, now) ==
    IF ip \notin DOMAIN rl
    THEN [map |-> [k \in DOMAIN rl \cup {ip} |->
                     IF k = ip THEN [count |-> 0, lastReset |-> now] ELSE rl[k]],
          remaining |-> MAX_REQUESTS_PER_DAY, allowed |-> TRUE]
    ELSE LET limit == IF GetDate(rl[ip].lastReset) # GetDate(now)
                      THEN [count |-> 0, lastReset |-> now]
                      ELSE [rl[ip] EXCEPT !.count = @ + 1]
             remaining == MAX_REQUESTS_PER_DAY - rl[ip].count
         IN  [map |-> [rl EXCEPT ![ip] = limit],
              remaining |-> remaining, allowed |-> remaining > 0]

\* getRateLimit(ip): the map after the call and the value returned
getRateLimit(rl, ip, now) ==
    IF ip \notin DOMAIN rl
    THEN [map |-> [k \in DOMAIN rl \cup {ip} |->
                     IF k = ip THEN [count |-> 0, lastReset |-> now] ELSE rl[k]],
          remaining |-> MAX_REQUESTS_PER_DAY, allowed |-> TRUE]
    ELSE LET limit == IF GetDate(rl[ip].lastReset) # GetDate(now)
                      THEN [count |-> 0, lastReset |-> now] ELSE rl[ip]
             remaining == MAX_REQUESTS_PER_DAY - limit.count
         IN  [map |-> [rl EXCEPT ![ip] = limit],
              remaining |-> remaining, allowed |-> remaining > 0]

\* incrementRateLimit counting the request for every client
incrementRateLimit_everyone(rl, ip) ==
    [k \in DOMAIN rl |-> [rl[k] EXCEPT !.count = @ + 1]]

\* incrementRateLimit that stops counting at the quota
incrementRateLimit_capped(rl, ip) ==
    IF ip \in DOMAIN rl /\ rl[ip].count < MAX_REQUESTS_PER_DAY
    THEN [rl EXCEPT ![ip] = [@ EXCEPT !.count = @ + 1]]
    ELSE rl

\* incrementRateLimit(ip): the map after the call
incrementRateLimit(rl, ip) ==
    IF ip \in DOMAIN rl
    THEN [rl EXCEPT ![ip] = [@ EXCEPT !.count = @ + 1]]
    ELSE rl

\* forwardedFor ? forwardedFor.split(',')[0] : 'unknown'
\* (the header is given as the list of its comma-separated parts)
ClientKey(forwardedFor) ==
    IF forwardedFor = <<>> THEN "unknown" ELSE Head(forwardedFor)

----------------------------------------------------------------------------
(* Market data and news of one ticker *)

\* getStockData(ticker, range): the snapshot, or null when the provider fails
getStockData(ticker, range, providerOk) ==
    IF providerOk THEN <<[ticker |-> ticker, range |-> range]>> ELSE <<>>

\* processStock(ticker, range): search is the outcome of
\* yahooFinance.search(ticker, {newsCount: 3}): [ok, news]; a rejected search
\* is caught and read as no news.  Neither promise of the Promise.all
\* rejects, so the catch branch with the placeholder headline is not taken.
processStock(ticker, range, providerOk, search) ==
    LET news == IF search.ok THEN search.news ELSE <<>>
    IN  [ticker    |-> ticker,
         stockData |-> getStockData(ticker, range, providerOk),
         news      |-> [i \in 1..Len(news) |->
                          [stock    |-> ticker,
                           headline |-> news[i].title,
                           url      |-> IF news[i].link # ""
                                        THEN <<"link", news[i].link>>
                                        ELSE <<"quote", ticker>>]]]

\* [...new Set([...DEFAULT_TICKERS, ...customTickers])]
AllTickers(customTickers) == Dedupe(DEFAULT_TICKERS \o customTickers, {})

\* stockResults: processStock of every ticker, in the order of allTickers.
\* The handlers call processStock(ticker) without a range, so the default
\* range '1d' is the one used.
StockResults(allTickers, outcome) ==
    [i \in 1..Len(allTickers) |->
        processStock(allTickers[i], "1d",
                     outcome[allTickers[i]].providerOk,
                     outcome[allTickers[i]].search)]

\* stockResults.flatMap(result => result.news)
StockNews(stockResults) ==
    FlatMap([i \in 1..Len(stockResults) |-> stockResults[i].news], 1)

\* the lines `${n.stock}: ${n.headline}` of the prompt
PromptLines(stockNews) ==
    [i \in 1..Len(stockNews) |-> <<stockNews[i].stock, stockNews[i].headline>>]

----------------------------------------------------------------------------
(* Parsing and validating the LLM's answer *)

\* JSON.parse(content) and the check of parsedContent.headlines.  A content
\* is [form, headlines, items]: form "empty" (no content), "text" (not JSON)
\* or "json"; headlines "absent", "nonarray" or "array".
ParseHeadlines(content) ==
    IF content.form # "json"
    THEN [ok |-> FALSE, items |-> <<>>,
          error |-> "Failed to parse sentiment data: Unexpected token"]
    ELSE IF content.headlines # "array"
    THEN [ok |-> FALSE, items |-> <<>>,
          error |-> "Failed to parse sentiment data: Response missing headlines array"]
    ELSE [ok |-> TRUE, items |-> content.items, error |-> ""]

\* the filter's predicate without the lower bound of the score
ValidItem_noLowerBound(item) ==
    /\ item.isObject
    /\ item.stockType = "string"
    /\ item.headlineType = "string"
    /\ item.scoreType = "number"
    /\ item.sentimentScore <= ScoreScale

\* the predicate of sentimentData.filter: typeof checks and -1 <= score <= 1
ValidItem(item) ==
    /\ item.isObject
    /\ item.stockType = "string"
    /\ item.headlineType = "string"
    /\ item.scoreType = "number"
    /\ item.sentimentScore >= -ScoreScale
    /\ item.sentimentScore <= ScoreScale

ValidItems(items) == SelectSeq(items, ValidItem)

----------------------------------------------------------------------------
(* Combining the scored items per ticker *)

RECURSIVE SumScores(_, _)
\* articles.reduce((sum, article) => sum + article.sentimentScore, 0)
SumScores(articles, i) ==
    IF i > Len(articles) THEN 0
    ELSE articles[i].sentimentScore + SumScores(articles, i + 1)

\* stockResults.find(r => r.ticker === stock)?.stockData || null
StockDataOf(stockResults, stock) ==
    LET hits == SelectSeq(stockResults, LAMBDA r : r.ticker = stock)
    IN  IF hits = <<>> THEN <<>> ELSE hits[1].stockData

\* stockNews.find(n => n.headline === headline)?.url
UrlOf(stockNews, headline) ==
    LET hits == SelectSeq(stockNews, LAMBDA n : n.headline = headline)
    IN  IF hits = <<>> THEN <<>> ELSE <<hits[1].url>>

\* a find that never finds
FindStock_never(acc, stock) == 0

\* acc.find(item => item.stock === stock): its index, or 0
FindStock(acc, stock) ==
    IF \E i \in 1..Len(acc) : acc[i].stock = stock
    THEN CHOOSE i \in 1..Len(acc) :
            acc[i].stock = stock /\ \A j \in 1..(i - 1) : acc[j].stock # stock
    ELSE 0

\* the reduce step that appends the article without refreshing the total
CombineStep_staleTotal(acc, curr, stockResults, stockNews) ==
    LET k         == FindStock(acc, curr.stock)
        stockData == StockDataOf(stockResults, curr.stock)
        article   == [headline       |-> curr.headline,
                      sentimentScore |-> curr.sentimentScore,
                      url            |-> UrlOf(stockNews, curr.headline)]
    IN  IF k # 0
        THEN LET articles == Append(acc[k].articles, article)
             IN  [acc EXCEPT ![k] =
                    [@ EXCEPT !.articles  = articles,
                              !.count     = Len(articles),
                              !.stockData = IF @ = <<>> THEN stockData ELSE @]]
        ELSE Append(acc, [stock          |-> curr.stock,
                          headline       |-> curr.headline,
                          totalSentiment |-> curr.sentimentScore,
                          articles       |-> <<article>>,
                          count          |-> 1,
                          stockData      |-> stockData])

\* one step of the reduce: fold the scored item curr into acc
CombineStep(acc, curr, stockResults, stockNews) ==
    LET k         == FindStock(acc, curr.stock)
        stockData == StockDataOf(stockResults, curr.stock)
        article   == [headline       |-> curr.headline,
                      sentimentScore |-> curr.sentimentScore,
                      url            |-> UrlOf(stockNews, curr.headline)]
    IN  IF k # 0
        THEN LET articles == Append(acc[k].articles, article)
             IN  [acc EXCEPT ![k] =
                    [@ EXCEPT !.articles       = articles,
                              !.count          = Len(articles),
                              !.totalSentiment = SumScores(articles, 1),
                              !.stockData      = IF @ = <<>> THEN stockData ELSE @]]
        ELSE Append(acc, [stock          |-> curr.stock,
                          headline       |-> curr.headline,
                          totalSentiment |-> curr.sentimentScore,
                          articles       |-> <<article>>,
                          count          |-> 1,
                          stockData      |-> stockData])

RECURSIVE Combine(_, _, _, _)
\* sentimentData.reduce(..., []): one entry per stock, in order of first
\* appearance.  An entry's sentimentScore is totalSentiment / count.
Combine(items, stockResults, stockNews, acc) ==
    IF items = <<>> THEN acc
    ELSE Combine(Tail(items), stockResults, stockNews,
                 CombineStep(acc, Head(items), stockResults, stockNews))

----------------------------------------------------------------------------
(* Ranking *)

\* a.sentimentScore > b.sentimentScore, for means totalSentiment / count
ScoreGreater(a, b) == a.totalSentiment * b.count > b.totalSentiment * a.count

RECURSIVE InsertDesc(_, _)
\* e placed after every entry whose score is >= its own
InsertDesc(sorted, e) ==
    IF sorted = <<>> THEN <<e>>
    ELSE IF ScoreGreater(e, Head(sorted)) THEN <<e>> \o sorted
    ELSE <<Head(sorted)>> \o InsertDesc(Tail(sorted), e)

RECURSIVE SortDesc(_, _)
\* combinedSentiments.sort((a, b) => b.sentimentScore - a.sentimentScore):
\* descending, stable
SortDesc(entries, sorted) ==
    IF entries = <<>> THEN sorted
    ELSE SortDesc(Tail(entries), InsertDesc(sorted, Head(entries)))

\* customTickers.includes(stock)
Includes(customTickers, stock) == stock \in Range(customTickers)

\* the ranking keeping one entry too many
Rank_oneMore(combined, customTickers) ==
    LET sorted == SortDesc(combined, <<>>)
        customTickerResults ==
            SelectSeq(sorted, LAMBDA e : Includes(customTickers, e.stock))
        others ==
            SelectSeq(sorted, LAMBDA e : ~Includes(customTickers, e.stock))
    IN  customTickerResults
          \o Slice0(others, ResultCap + 1 - Len(customTickerResults))

\* the ranking with the two groups merged back by score
Rank_interleaved(combined, customTickers) ==
    LET sorted == SortDesc(combined, <<>>)
        customTickerResults ==
            SelectSeq(sorted, LAMBDA e : Includes(customTickers, e.stock))
        others ==
            SelectSeq(sorted, LAMBDA e : ~Includes(customTickers, e.stock))
    IN  SortDesc(customTickerResults
                   \o Slice0(others, ResultCap - Len(customTickerResults)), <<>>)

\* sort, then customTickerResults followed by
\* otherResults = others.slice(0, 10 - customTickerResults.length)
Rank(combined, customTickers) ==
    LET sorted == SortDesc(combined, <<>>)
        customTickerResults ==
            SelectSeq(sorted, LAMBDA e : Includes(customTickers, e.stock))
        others ==
            SelectSeq(sorted, LAMBDA e : ~Includes(customTickers, e.stock))
    IN  customTickerResults
          \o Slice0(others, ResultCap - Len(customTickerResults))

----------------------------------------------------------------------------
(* Requests and responses *)

Slots == 1..MaxInFlight

\* NextResponse.json(body, {status}): hasRemaining says whether the body has
\* the field remaining
Response(status, error, hasRemaining, remaining, data) ==
    [status |-> status, error |-> error, hasRemaining |-> hasRemaining,
     remaining |-> remaining, data |-> data]

NoResponse == Response(0, "", FALSE, 0, <<>>)

\* the error texts of the 429 and of the 400 response
RateLimitExceeded == "Rate limit exceeded. Please try again tomorrow."

InvalidRange == "Invalid range. Must be one of: 1d, 5d, 1mo, 1y"

\* a free slot.  pc is the await the handler is suspended at: "body"
\* (req.json()), "stocks" (the Promise.all over the tickers), "llm" (the chat
\* completion); "done" once it has returned its response.
\* The other fields are the handler's locals (ip, range, customTickers,
\* allTickers, remaining, stockResults, content, combinedSentiments), issued
\* the kinds of provider calls it has made, prompts the prompts of its chat
\* completion calls, resp its response.
NoContent == [form |-> "none", headlines |-> "absent", items |-> <<>>]

IdleReq ==
    [pc |-> "idle", method |-> "", ip |-> "", range |-> "",
     customTickers |-> <<>>, allTickers |-> <<>>, remaining |-> 0,
     stockResults |-> <<>>, content |-> NoContent,
     combinedSentiments |-> <<>>, issued |-> {}, prompts |-> <<>>,
     resp |-> NoResponse]

Returned(r, resp) == [r EXCEPT !.pc = "done", !.resp = resp]

\* the catch block of GET: status error.status || 500, the error's message,
\* remaining - 1
GET_catch(r, status, message) ==
    Returned(r, Response(IF status # 0 THEN status ELSE 500, message,
                         TRUE, r.remaining - 1, <<>>))

----------------------------------------------------------------------------
(* GET /api/stocks *)

\* GET going on without looking at allowed
GET_entry_noCheck(rl, now, hasKey, forwardedFor, rangeParam, tickersParam) ==
    LET ip    == ClientKey(forwardedFor)
        range == IF rangeParam = "" THEN "1d" ELSE rangeParam
        g     == getRateLimit(rl, ip, now)
        r     == [IdleReq EXCEPT !.method = "GET", !.ip = ip, !.range = range,
                                 !.customTickers = tickersParam,
                                 !.remaining = g.remaining]
    IN  IF ~hasKey
        THEN [map |-> g.map,
              req |-> Returned(r, Response(500, "OpenAI API key not configured",
                                           FALSE, 0, <<>>))]
        ELSE IF range \notin VALID_TIME_RANGES
        THEN [map |-> g.map,
              req |-> Returned(r, Response(400, InvalidRange, FALSE, 0, <<>>))]
        ELSE [map |-> incrementRateLimit(g.map, ip),
              req |-> [r EXCEPT !.pc = "stocks",
                                !.allTickers = AllTickers(tickersParam)]]

\* GET incrementing right after the admission check, before the validation
GET_entry_incrementFirst(rl, now, hasKey, forwardedFor, rangeParam, tickersParam) ==
    LET ip    == ClientKey(forwardedFor)
        range == IF rangeParam = "" THEN "1d" ELSE rangeParam
        g     == getRateLimit(rl, ip, now)
        r     == [IdleReq EXCEPT !.method = "GET", !.ip = ip, !.range = range,
                                 !.customTickers = tickersParam,
                                 !.remaining = g.remaining]
    IN  IF ~g.allowed
        THEN [map |-> g.map,
              req |-> Returned(r, Response(429, RateLimitExceeded, TRUE,
                                           g.remaining, <<>>))]
        ELSE IF ~hasKey
        THEN [map |-> incrementRateLimit(g.map, ip),
              req |-> Returned(r, Response(500, "OpenAI API key not configured",
                                           FALSE, 0, <<>>))]
        ELSE IF range \notin VALID_TIME_RANGES
        THEN [map |-> incrementRateLimit(g.map, ip),
              req |-> Returned(r, Response(400, InvalidRange, FALSE, 0, <<>>))]
        ELSE [map |-> incrementRateLimit(g.map, ip),
              req |-> [r EXCEPT !.pc = "stocks",
                                !.allTickers = AllTickers(tickersParam)]]

\* GET from its entry to its first await: the admission check, the API-key
\* check, the range validation, the increment and the dispatch of the
\* per-ticker tasks.  rangeParam "" is a missing range parameter, tickersParam
\* the parts of the tickers parameter (<<>> when it is missing).
GET_entry(rl, now, hasKey, forwardedFor, rangeParam, tickersParam) ==
    LET ip    == ClientKey(forwardedFor)
        range == IF rangeParam = "" THEN "1d" ELSE rangeParam
        g     == getRateLimit(rl, ip, now)
        r     == [IdleReq EXCEPT !.method = "GET", !.ip = ip, !.range = range,
                                 !.customTickers = tickersParam,
                                 !.remaining = g.remaining]
    IN  IF ~g.allowed
        THEN [map |-> g.map,
              req |-> Returned(r, Response(429, RateLimitExceeded, TRUE,
                                           g.remaining, <<>>))]
        ELSE IF ~hasKey
        THEN [map |-> g.map,
              req |-> Returned(r, Response(500, "OpenAI API key not configured",
                                           FALSE, 0, <<>>))]
        ELSE IF range \notin VALID_TIME_RANGES
        THEN [map |-> g.map,
              req |-> Returned(r, Response(400, InvalidRange, FALSE, 0, <<>>))]
        ELSE [map |-> incrementRateLimit(g.map, ip),
              req |-> [r EXCEPT !.pc = "stocks",
                                !.allTickers = AllTickers(tickersParam)]]

\* GET calling the chat completion whether or not a headline was collected
GET_afterStocks_alwaysAsks(r, outcome) ==
    LET stockResults == StockResults(r.allTickers, outcome)
        collected    == [r EXCEPT !.stockResults = stockResults,
                                  !.issued = @ \cup {"market", "news"}]
    IN  [collected EXCEPT !.pc = "llm", !.issued = @ \cup {"llm"},
                          !.prompts = Append(@, PromptLines(
                                         StockNews(stockResults)))]

\* GET from the completion of the Promise.all to the chat completion call
GET_afterStocks(r, outcome) ==
    LET stockResults == StockResults(r.allTickers, outcome)
        collected    == [r EXCEPT !.stockResults = stockResults,
                                  !.issued = @ \cup {"market", "news"}]
    IN  IF StockNews(stockResults) = <<>>
        THEN GET_catch(collected, 0, "No headlines found")
        ELSE [collected EXCEPT !.pc = "llm", !.issued = @ \cup {"llm"},
                               !.prompts = Append(@, PromptLines(
                                              StockNews(stockResults)))]

\* GET answering a parse failure with the quota as it was at admission
GET_afterLLM_staleRemaining(r, llm) ==
    IF llm.kind = "error" THEN GET_catch(r, llm.status, "OpenAI API error")
    ELSE IF llm.content.form = "empty"
    THEN GET_catch([r EXCEPT !.content = llm.content], 0,
                   "No content received from OpenAI")
    ELSE LET got       == [r EXCEPT !.content = llm.content]
             parsed    == ParseHeadlines(llm.content)
             valid     == ValidItems(parsed.items)
             stockNews == StockNews(r.stockResults)
             combined  == Combine(valid, r.stockResults, stockNews, <<>>)
         IN  IF ~parsed.ok
             THEN Returned(got, Response(500, parsed.error, TRUE,
                                         r.remaining, <<>>))
             ELSE IF valid = <<>>
             THEN GET_catch(got, 0, "No valid sentiment data after filtering")
             ELSE Returned(
                     [got EXCEPT !.combinedSentiments = SortDesc(combined, <<>>)],
                     Response(200, "", TRUE, r.remaining - 1,
                              Rank(combined, r.customTickers)))

\* GET answering 200 with no data when no item survives the validation
GET_afterLLM_degrade(r, llm) ==
    IF llm.kind = "error" THEN GET_catch(r, llm.status, "OpenAI API error")
    ELSE IF llm.content.form = "empty"
    THEN GET_catch([r EXCEPT !.content = llm.content], 0,
                   "No content received from OpenAI")
    ELSE LET got       == [r EXCEPT !.content = llm.content]
             parsed    == ParseHeadlines(llm.content)
             valid     == ValidItems(parsed.items)
             stockNews == StockNews(r.stockResults)
             combined  == Combine(valid, r.stockResults, stockNews, <<>>)
         IN  IF ~parsed.ok THEN GET_catch(got, 0, parsed.error)
             ELSE Returned(
                     [got EXCEPT !.combinedSentiments = SortDesc(combined, <<>>)],
                     Response(200, "", TRUE, r.remaining - 1,
                              Rank(combined, r.customTickers)))

\* GET from the chat completion's outcome to its response.  llm is
\* [kind, status, content]: kind "error" is a rejected call (status 0 when the
\* error carries none), kind "content" a completion.
GET_afterLLM(r, llm) ==
    IF llm.kind = "error" THEN GET_catch(r, llm.status, "OpenAI API error")
    ELSE IF llm.content.form = "empty"
    THEN GET_catch([r EXCEPT !.content = llm.content], 0,
                   "No content received from OpenAI")
    ELSE LET got       == [r EXCEPT !.content = llm.content]
             parsed    == ParseHeadlines(llm.content)
             valid     == ValidItems(parsed.items)
             stockNews == StockNews(r.stockResults)
             combined  == Combine(valid, r.stockResults, stockNews, <<>>)
         IN  IF ~parsed.ok THEN GET_catch(got, 0, parsed.error)
             ELSE IF valid = <<>>
             THEN GET_catch(got, 0, "No valid sentiment data after filtering")
             ELSE Returned(
                     [got EXCEPT !.combinedSentiments = SortDesc(combined, <<>>)],
                     Response(200, "", TRUE, r.remaining - 1,
                              Rank(combined, r.customTickers)))

----------------------------------------------------------------------------
(* POST /api/stocks *)

\* POST from its entry to await req.json(): the admission check
POST_entry(rl, now, forwardedFor) ==
    LET ip == ClientKey(forwardedFor)
        g  == getRateLimit(rl, ip, now)
        r  == [IdleReq EXCEPT !.method = "POST", !.ip = ip,
                              !.remaining = g.remaining]
    IN  IF ~g.allowed
        THEN [map |-> g.map,
              req |-> Returned(r, Response(429, RateLimitExceeded, TRUE,
                                           g.remaining, <<>>))]
        ELSE [map |-> g.map, req |-> [r EXCEPT !.pc = "body"]]

\* POST from the body's arrival to the Promise.all: body is [ok, tickers];
\* ok is false when req.json() rejects or tickers cannot be spread, which the
\* catch block answers with 500 and remaining - 1
POST_afterBody(rl, r, body) ==
    IF ~body.ok
    THEN [map |-> rl,
          req |-> Returned(r, Response(500, "Unexpected token", TRUE,
                                       r.remaining - 1, <<>>))]
    ELSE [map |-> incrementRateLimit(rl, r.ip),
          req |-> [r EXCEPT !.pc = "stocks", !.customTickers = body.tickers,
                            !.allTickers = AllTickers(body.tickers)]]

\* POST from the completion of the Promise.all to its response
POST_afterStocks(r, outcome) ==
    LET stockResults == StockResults(r.allTickers, outcome)
    IN  Returned([r EXCEPT !.stockResults = stockResults,
                           !.issued = @ \cup {"market", "news"}],
                 Response(200, "", TRUE, r.remaining - 1,
                    [tickers   |-> r.allTickers,
                     articles  |-> StockNews(stockResults),
                     stockData |-> [i \in 1..Len(stockResults) |->
                                      stockResults[i].stockData]]))

----------------------------------------------------------------------------
(* The environment: what callers send and what the providers answer *)

\* caller tickers that are not default tickers
CustomPool ==
    <<"NFLX", "TSLA", "NVDA", "AMD", "INTC", "IBM", "ORCL", "CRM", "ADBE",
      "UBER", "LYFT", "SHOP", "SQ", "PYPL", "DIS", "BA">>

RECURSIVE SeqsUpTo(_, _)
\* the sequences over S of length at most n
SeqsUpTo(S, n) ==
    IF n = 0 THEN {<<>>}
    ELSE LET shorter == SeqsUpTo(S, n - 1)
         IN  shorter \cup {Append(q, x) : q \in shorter, x \in S}

\* small requests: up to MaxCustom tickers, a default one and repetitions
\* included
SmallCustom == SeqsUpTo({"NFLX", "AAPL"}, MaxCustom)

\* large requests: n distinct tickers
LargeCustom == {SubSeq(CustomPool, 1, n) : n \in (MaxCustom + 1)..MaxExplicit}

OneNews == << [title |-> <<"title", "h1">>, link |-> "l1"] >>

SubsetsUpTo(S, n) == {X \in SUBSET S : Cardinality(X) <= n}

\* the outcome of the per-ticker tasks with the searches of noNews coming
\* back empty (or rejected) and the market data of noData failing
OutcomeWith(tickers, noNews, noData, rejected) ==
    [t \in tickers |->
        [providerOk |-> t \notin noData,
         search     |-> IF t \in noNews
                        THEN [ok |-> ~rejected, news |-> <<>>]
                        ELSE [ok |-> TRUE, news |-> OneNews]]]

\* outcomes of a small request: the searches of up to MaxNewsFail tickers
\* (or of all) yield nothing, and the market data fails for no ticker, for
\* these tickers or for the other ones
SmallOutcomes(allTickers) ==
    LET all == Range(allTickers)
    IN  {OutcomeWith(all, F,
                     IF mode = 0 THEN {} ELSE IF mode = 1 THEN F ELSE all \ F,
                     mode = 1) :
            F \in SubsetsUpTo(all, MaxNewsFail) \cup {all}, mode \in 0..2}

\* outcomes of a large request: news for the first j default tickers and the
\* first m caller tickers only
LargeOutcomes(allTickers, customTickers) ==
    {OutcomeWith(Range(allTickers),
                 Range(allTickers) \ (Range(SubSeq(DEFAULT_TICKERS, 1, j))
                                        \cup Range(SubSeq(customTickers, 1, m))),
                 {}, FALSE) :
        j \in 0..Len(DEFAULT_TICKERS), m \in 0..Len(customTickers)}

Outcomes(r) ==
    IF Len(r.customTickers) <= MaxCustom THEN SmallOutcomes(r.allTickers)
    ELSE LargeOutcomes(r.allTickers, r.customTickers)

Item(stock, headline, score) ==
    [isObject |-> TRUE, stockType |-> "string", stock |-> stock,
     headlineType |-> "string", headline |-> headline,
     scoreType |-> "number", sentimentScore |-> score]

ScorePatterns == 1..3

\* the score the pattern k gives the i-th headline: all equal, rising,
\* falling (wrapping around the valid scores)
PatScore(k, i) ==
    IF k = 1 THEN ScoreScale
    ELSE IF k = 2 THEN ((i - 1) % (2 * ScoreScale + 1)) - ScoreScale
    ELSE ScoreScale - ((2 * (i - 1)) % (2 * ScoreScale + 1))

\* an answer that scores every headline of the prompt once, in order
Faithful(prompt, k) ==
    [i \in 1..Len(prompt) |-> Item(prompt[i][1], prompt[i][2], PatScore(k, i))]

Reverse(s) == [i \in 1..Len(s) |-> s[Len(s) + 1 - i]]

\* answers that depart from the prompt
Variants(items) ==
    IF items = <<>> THEN {items} ELSE
    {items,
     Reverse(items),
     Tail(items),
     Append(items, Item("ZZZZ", <<"title", "h9">>, 0)),
     Append(items, Item(items[1].stock, <<"title", "h2">>, -ScoreScale)),
     <<Item(items[1].stock, <<"title", "h2">>, ScoreScale + 1)>> \o items,
     <<[Item(items[1].stock, items[1].headline, 0) EXCEPT !.stockType = "number"]>>
        \o items,
     <<Item(items[1].stock, items[1].headline, -(ScoreScale + 1))>>}

JsonContent(items) == [form |-> "json", headlines |-> "array", items |-> items]

Completion(content) == [kind |-> "content", status |-> 0, content |-> content]

ApiError(status) ==
    [kind |-> "error", status |-> status, content |-> NoContent]

BadCompletions ==
    {Completion([form |-> "empty", headlines |-> "absent", items |-> <<>>]),
     Completion([form |-> "text", headlines |-> "absent", items |-> <<>>]),
     Completion([form |-> "json", headlines |-> "absent", items |-> <<>>]),
     Completion([form |-> "json", headlines |-> "nonarray", items |-> <<>>]),
     Completion(JsonContent(<<>>))}

\* the outcomes of the chat completion for a prompt
Replies(prompt) ==
    {ApiError(0), ApiError(429)} \cup BadCompletions
      \cup {Completion(JsonContent(v)) :
              v \in UNION {Variants(Faithful(prompt, k)) : k \in ScorePatterns}}

\* the few outcomes the rate-limiting runs need
FewReplies(prompt) ==
    {ApiError(429),
     Completion([form |-> "text", headlines |-> "absent", items |-> <<>>]),
     Completion(JsonContent(Faithful(prompt, 2)))}

FewOutcomes(allTickers) ==
    {OutcomeWith(Range(allTickers), {}, {}, FALSE),
     OutcomeWith(Range(allTickers), Range(allTickers), {}, TRUE)}

Headers == {<<>>, <<"10.0.0.1", "10.0.0.9">>}

RangeParams == {"", "2d"}

Bodies == {[ok |-> TRUE, tickers |-> <<>>], [ok |-> FALSE, tickers |-> <<>>]}

----------------------------------------------------------------------------
(* Actions *)

\* a GET request arrives and runs to its first await or to its response
GET_Start(s, forwardedFor, rangeParam, tickersParam) ==
    /\ req[s].pc = "idle"
    /\ LET e == GET_entry(rateLimits, today, apiKey, forwardedFor, rangeParam,
                          tickersParam)
       IN  /\ rateLimits' = e.map
           /\ req' = [req EXCEPT ![s] = e.req]
    /\ UNCHANGED <<today, apiKey, fetch, config, sync, tasks, client, ingest>>

\* the Promise.all of a GET resolves
GET_StocksDone(s, outcome) ==
    /\ req[s].pc = "stocks"
    /\ req[s].method = "GET"
    /\ req' = [req EXCEPT ![s] = GET_afterStocks(@, outcome)]
    /\ UNCHANGED <<today, apiKey, rateLimits, fetch, config, sync, tasks,
                   client, ingest>>

\* the chat completion of a GET settles
GET_LLMDone(s, llm) ==
    /\ req[s].pc = "llm"
    /\ req' = [req EXCEPT ![s] = GET_afterLLM(@, llm)]
    /\ UNCHANGED <<today, apiKey, rateLimits, fetch, config, sync, tasks,
                   client, ingest>>

\* a POST request arrives and runs to await req.json() or to its response
POST_Start(s, forwardedFor) ==
    /\ req[s].pc = "idle"
    /\ LET e == POST_entry(rateLimits, today, forwardedFor)
       IN  /\ rateLimits' = e.map
           /\ req' = [req EXCEPT ![s] = e.req]
    /\ UNCHANGED <<today, apiKey, fetch, config, sync, tasks, client, ingest>>

\* the body of a POST arrives
POST_Body(s, body) ==
    /\ req[s].pc = "body"
    /\ LET e == POST_afterBody(rateLimits, req[s], body)
       IN  /\ rateLimits' = e.map
           /\ req' = [req EXCEPT ![s] = e.req]
    /\ UNCHANGED <<today, apiKey, fetch, config, sync, tasks, client, ingest>>

\* the Promise.all of a POST resolves
POST_StocksDone(s, outcome) ==
    /\ req[s].pc = "stocks"
    /\ req[s].method = "POST"
    /\ req' = [req EXCEPT ![s] = POST_afterStocks(@, outcome)]
    /\ UNCHANGED <<today, apiKey, rateLimits, fetch, config, sync, tasks,
                   client, ingest>>

\* the response has been sent; the slot is free again
Deliver(s) ==
    /\ req[s].pc = "done"
    /\ req' = [req EXCEPT ![s] = IdleReq]
    /\ UNCHANGED <<today, apiKey, rateLimits, fetch, config, sync, tasks,
                   client, ingest>>

\* midnight
Tick ==
    /\ today # LastDate
    /\ today' = NextDate(today)
    /\ UNCHANGED <<apiKey, rateLimits, req, fetch, config, sync, tasks,
                   client, ingest>>

----------------------------------------------------------------------------
(* Spec: the requests of several clients, one at a time, over several days *)

\* no call of getStockData under way
NoFetch ==
    [pc |-> "idle", variant |-> "", attempt |-> 0, waits |-> <<>>,
     answers |-> <<>>, returned |-> <<>>, threw |-> FALSE]

\* config.json does not exist
NoConfig == <<>>

\* no sync-tickers request under way
NoSync == [pc |-> "idle", body |-> <<>>, status |-> 0]

\* no per-ticker task scheduled
NoTasks == [pc |-> "idle", delays |-> <<>>, fired |-> 0, outcome |-> <<>>]

\* a browser that has never opened the page: open says whether the page is
\* open, range and stocks are the state selectedRange and the tickers of the
\* state stocks, pending the call (load, refresh, graphs) whose response is
\* awaited and since the date when it started; stored, lastResetDate,
\* analysed, analysisTimestamp and custom are the localStorage items
\* remainingCalls, lastResetDate, lastAnalysis (its tickers),
\* analysisTimestamp and customTickers
NoClient ==
    [open |-> FALSE, range |-> "1d", stocks |-> {}, error |-> "",
     pending |-> "", since |-> <<>>, stored |-> <<>>, lastResetDate |-> <<>>,
     analysed |-> <<>>, analysisTimestamp |-> <<>>, custom |-> <<>>]

\* no ingestion under way
NoIngest ==
    [pc |-> "idle", tickers |-> <<>>, settled |-> <<>>, status |-> 0,
     results |-> <<>>]

\* the parts of the state that the /api/stocks requests do not touch
Aside ==
    /\ fetch = NoFetch /\ config = NoConfig /\ sync = NoSync
    /\ tasks = NoTasks /\ client = NoClient /\ ingest = NoIngest

Init ==
    /\ today = FirstDate
    /\ apiKey \in BOOLEAN
    /\ rateLimits = <<>>
    /\ req = [s \in Slots |-> IdleReq]
    /\ Aside

AllIdle == \A s \in Slots : req[s].pc = "idle"

GetArrives ==
    \E h \in Headers, rp \in RangeParams :
        AllIdle /\ GET_Start(1, h, rp, <<>>)

GetCollected ==
    \E s \in Slots : \E o \in FewOutcomes(req[s].allTickers) :
        GET_StocksDone(s, o)

GetScored ==
    \E s \in Slots :
        \E l \in FewReplies(PromptLines(StockNews(req[s].stockResults))) :
            GET_LLMDone(s, l)

PostArrives == \E h \in Headers : AllIdle /\ POST_Start(1, h)

PostBody == \E s \in Slots, b \in Bodies : POST_Body(s, b)

PostCollected ==
    \E s \in Slots : \E o \in FewOutcomes(req[s].allTickers) :
        POST_StocksDone(s, o)

Delivered == \E s \in Slots : Deliver(s)

Next ==
    \/ GetArrives
    \/ GetCollected
    \/ GetScored
    \/ PostArrives
    \/ PostBody
    \/ PostCollected
    \/ Delivered
    \/ Tick

Spec == Init /\ [][Next]_vars

----------------------------------------------------------------------------
(* SpecRace: up to MaxInFlight requests of one client handled concurrently  *)
(* within one day                                                           *)

\* A response leaves when the handler returns: pc "done" only shows it, and
\* the slot is freed before anything else happens.
NoneDone == \A s \in Slots : req[s].pc # "done"

\* slots are interchangeable: a new request takes the lowest free one
FreeSlot(s) ==
    /\ req[s].pc = "idle"
    /\ \A t \in Slots : t < s => req[t].pc # "idle"

RaceHeader == <<"10.0.0.1", "10.0.0.9">>

RaceGetArrives ==
    \E s \in Slots, rp \in RangeParams :
        NoneDone /\ FreeSlot(s) /\ GET_Start(s, RaceHeader, rp, <<>>)

RaceGetCollected == NoneDone /\ GetCollected

RaceGetScored == NoneDone /\ GetScored

RacePostArrives ==
    \E s \in Slots : NoneDone /\ FreeSlot(s) /\ POST_Start(s, RaceHeader)

RacePostBody == NoneDone /\ PostBody

RacePostCollected == NoneDone /\ PostCollected

NextRace ==
    \/ RaceGetArrives
    \/ RaceGetCollected
    \/ RaceGetScored
    \/ RacePostArrives
    \/ RacePostBody
    \/ RacePostCollected
    \/ Delivered

SpecRace == Init /\ [][NextRace]_vars

----------------------------------------------------------------------------
(* SpecPipe: one GET request, over the callers' ticker lists and the         *)
(* providers' answers                                                       *)

InitPipe ==
    /\ today = FirstDate
    /\ apiKey = TRUE
    /\ rateLimits = <<>>
    /\ req = [s \in Slots |-> IdleReq]
    /\ Aside

PipeArrives ==
    \E ct \in SmallCustom \cup LargeCustom :
        /\ rateLimits = <<>>
        /\ GET_Start(1, <<"10.0.0.1">>, "5d", ct)

PipeCollected == \E o \in Outcomes(req[1]) : GET_StocksDone(1, o)

PipeScored ==
    /\ req[1].pc = "llm"
    /\ \E l \in Replies(PromptLines(StockNews(req[1].stockResults))) :
          GET_LLMDone(1, l)

NextPipe ==
    \/ PipeArrives
    \/ PipeCollected
    \/ PipeScored

SpecPipe == InitPipe /\ [][NextPipe]_vars

----------------------------------------------------------------------------
(* Properties *)

Done(s) == req[s].pc = "done"

\* the stored count of a client key (0 before its record exists)
CountOf(rl, k) == IF k \in DOMAIN rl THEN rl[k].count ELSE 0

\* C1: when a client's record counts MAX_REQUESTS_PER_DAY = 5 requests
\* admitted and incremented today, the client's next admission check
\* returns allowed = false and remaining = 0: the request is answered 429
\* with remaining 0 and the record is left as it is.
C1_SixthRejected ==
    [][\A s \in Slots :
          (/\ req[s].pc = "idle"
           /\ req'[s].pc # "idle"
           /\ req'[s].ip \in DOMAIN rateLimits
           /\ rateLimits[req'[s].ip].count = MAX_REQUESTS_PER_DAY
           /\ rateLimits[req'[s].ip].lastReset = today)
          => (/\ req'[s].pc = "done"
              /\ req'[s].remaining = 0
              /\ req'[s].resp.status = 429
              /\ req'[s].resp.hasRemaining
              /\ req'[s].resp.remaining = 0
              /\ rateLimits' = rateLimits)]_vars

C1_Witness ==
    \E s \in Slots :
        /\ Done(s)
        /\ req[s].resp.status = 429
        /\ req[s].resp.remaining = 0
        /\ req[s].ip \in DOMAIN rateLimits
        /\ rateLimits[req[s].ip] =
              [count |-> MAX_REQUESTS_PER_DAY, lastReset |-> today]

\* C2: an admission check made on a date different from the record's
\* lastReset (any other date, the same day of the month in a later month
\* included) resets the count to 0 before evaluating: the request is
\* admitted with remaining 5, and the count is 1 once it has been
\* incremented (remaining 4).
C2_ResetOnAnyOtherDate ==
    [][\A s \in Slots :
          (/\ req[s].pc = "idle"
           /\ req'[s].pc # "idle"
           /\ req'[s].ip \in DOMAIN rateLimits
           /\ rateLimits[req'[s].ip].lastReset # today)
          => (/\ req'[s].remaining = MAX_REQUESTS_PER_DAY
              /\ req'[s].resp.status # 429
              /\ rateLimits'[req'[s].ip].count =
                    IF req'[s].pc = "stocks" THEN 1 ELSE 0)]_vars

\* a GET request that has returned 200
Succeeded(s) ==
    Done(s) /\ req[s].method = "GET" /\ req[s].resp.status = 200

\* the entries of a list whose ticker the caller named / did not name
ExplicitOf(entries, customTickers) ==
    SelectSeq(entries, LAMBDA e : Includes(customTickers, e.stock))

OthersOf(entries, customTickers) ==
    SelectSeq(entries, LAMBDA e : ~Includes(customTickers, e.stock))

Stocks(entries) == {entries[i].stock : i \in DOMAIN entries}

\* C3: a GET that succeeds returns an entry for every ticker of its tickers
\* parameter, whatever the market data and the news search of that ticker
\* gave.
C3_RequestedTickersPresent ==
    \A s \in Slots :
        Succeeded(s) =>
            Range(req[s].customTickers) \subseteq Stocks(req[s].resp.data)

\* C4 as claimed: the ranked result of a GET never has more than
\* ResultCap = 10 entries, for every list of caller tickers.
C4_AtMostCap ==
    \A s \in Slots : Succeeded(s) => Len(req[s].resp.data) <= ResultCap

\* C4 as amended: when at most ResultCap = 10 entries belong to caller
\* tickers, the ranked result of a GET has at most 10 entries; when more do,
\* it has more than 10 entries.
C4_AtMostCapUnlessExplicit ==
    \A s \in Slots :
        Succeeded(s) =>
            IF Len(ExplicitOf(req[s].combinedSentiments, req[s].customTickers))
                  <= ResultCap
            THEN Len(req[s].resp.data) <= ResultCap
            ELSE Len(req[s].resp.data) > ResultCap

C4_Witness ==
    \E s \in Slots :
        /\ Succeeded(s)
        /\ Len(req[s].combinedSentiments) > ResultCap
        /\ Len(ExplicitOf(req[s].combinedSentiments, req[s].customTickers))
              \in 1..ResultCap
        /\ Len(req[s].resp.data) = ResultCap

\* C5: with ResultCap or more entries of caller tickers the result has all
\* of them and no other entry; with fewer, it has exactly
\* min(number of other entries, ResultCap - number of caller entries) other
\* entries, and no left-out other entry scores higher than a kept one.
C5_FillToCap ==
    \A s \in Slots :
        Succeeded(s) =>
            LET explicit == ExplicitOf(req[s].combinedSentiments,
                                       req[s].customTickers)
                others   == OthersOf(req[s].combinedSentiments,
                                     req[s].customTickers)
                kept     == OthersOf(req[s].resp.data, req[s].customTickers)
            IN  /\ ExplicitOf(req[s].resp.data, req[s].customTickers) = explicit
                /\ IF Len(explicit) >= ResultCap
                   THEN kept = <<>>
                   ELSE /\ Len(kept) =
                              IF Len(others) < ResultCap - Len(explicit)
                              THEN Len(others)
                              ELSE ResultCap - Len(explicit)
                        /\ \A i \in DOMAIN kept, j \in DOMAIN others :
                              others[j].stock \notin Stocks(kept)
                                 => ~ScoreGreater(others[j], kept[i])

\* C6: in a success response the entries of caller tickers come first, in
\* descending order of sentimentScore, followed by the other entries, in
\* descending order of sentimentScore.
C6_ExplicitFirstEachSorted ==
    \A s \in Slots :
        Succeeded(s) =>
            LET data == req[s].resp.data
                named(i) == Includes(req[s].customTickers, data[i].stock)
            IN  \A i, j \in DOMAIN data :
                    i < j =>
                        /\ named(j) => named(i)
                        /\ (named(i) <=> named(j))
                              => ~ScoreGreater(data[j], data[i])

C6_Witness ==
    \E s \in Slots :
        /\ Succeeded(s)
        /\ LET data == req[s].resp.data
               named(i) == Includes(req[s].customTickers, data[i].stock)
           IN  /\ \E i, j \in DOMAIN data :
                     /\ i < j /\ named(i) /\ ~named(j)
                     /\ ScoreGreater(data[j], data[i])
               /\ \E i, j \in DOMAIN data :
                     named(i) /\ named(j) /\ ScoreGreater(data[i], data[j])
               /\ \E i, j \in DOMAIN data :
                     ~named(i) /\ ~named(j) /\ ScoreGreater(data[i], data[j])

ParseFailure == "Failed to parse sentiment data: Unexpected token"

\* C7: when the completion's content is not JSON, the admitted GET returns
\* 500 with the parse failure as its error and remaining one less than at
\* admission, and the client's count is one more than at admission.
C7_MalformedAnswer ==
    \A s \in Slots :
        (Done(s) /\ req[s].method = "GET" /\ req[s].content.form = "text")
        => (/\ req[s].resp.status = 500
            /\ req[s].resp.error = ParseFailure
            /\ req[s].resp.hasRemaining
            /\ req[s].resp.remaining = req[s].remaining - 1
            /\ CountOf(rateLimits, req[s].ip)
                  = (MAX_REQUESTS_PER_DAY - req[s].remaining) + 1)

C7_Witness ==
    \E s \in Slots :
        /\ Done(s)
        /\ req[s].content.form = "text"
        /\ req[s].resp.status = 500
        /\ req[s].resp.remaining = 2

\* C8: every response with status 429 carries remaining = 0, and no response
\* carries a negative remaining, also when requests of the client interleave.
C8_RejectedWithZero ==
    \A s \in Slots :
        Done(s) =>
            /\ req[s].resp.status = 429
                  => (req[s].resp.hasRemaining /\ req[s].resp.remaining = 0)
            /\ req[s].resp.hasRemaining => req[s].resp.remaining >= 0

\* C9: no step of a POST request changes the client's count, and a POST is
\* never answered 429.
C9_PostConsumesNothing ==
    [][\A s \in Slots :
          (req'[s].method = "POST" /\ req'[s] # req[s])
          => (/\ CountOf(rateLimits', req'[s].ip)
                    = CountOf(rateLimits, req'[s].ip)
              /\ req'[s].resp.status # 429)]_vars

C11_ErrorsCarryRemaining ==
    \A s \in Slots :
        (Done(s) /\ req[s].resp.status \in {400, 429, 500})
        => req[s].resp.hasRemaining

\* the headlines collected for ticker t by a request
HeadlinesOf(r, t) ==
    SelectSeq(StockNews(r.stockResults), LAMBDA n : n.stock = t)

\* the request has collected its headlines
Collected(s) ==
    req[s].pc \in {"llm", "done"} /\ req[s].stockResults # <<>>

\* C12: once a request has collected its headlines, every ticker of the
\* default set and of the caller's list has at least one headline, and the
\* placeholder 'Market analysis for TICKER' is among a ticker's headlines
\* exactly when no real headline was collected for it, and then only once.
C12_PlaceholderWhenNoHeadline ==
    \A s \in Slots :
        Collected(s) =>
            \A t \in Range(req[s].allTickers) :
                LET hs   == HeadlinesOf(req[s], t)
                    ph   == SelectSeq(hs, LAMBDA n : n.headline = <<"placeholder", t>>)
                    real == SelectSeq(hs, LAMBDA n : n.headline # <<"placeholder", t>>)
                IN  /\ Len(hs) >= 1
                    /\ (Len(ph) >= 1) <=> (Len(real) = 0)
                    /\ Len(ph) <= 1

----------------------------------------------------------------------------
(* SpecScore: one GET request whose headlines were all collected, over the  *)
(* arrays of items a completion may hold                                    *)

\* scores inside, on and outside the bounds -1.0 and 1.0
PoolScores ==
    {-(ScoreScale + 1), -ScoreScale, 0, 1, ScoreScale, ScoreScale + 1}

\* elements of the headlines array that are not a scored item
Malformed ==
    {[Item("AAPL", <<"title", "h1">>, 0) EXCEPT !.isObject = FALSE],
     [Item("AAPL", <<"title", "h1">>, 0) EXCEPT !.stockType = "number"],
     [Item("AAPL", <<"title", "h1">>, 0) EXCEPT !.headlineType = "undefined"],
     [Item("AAPL", <<"title", "h1">>, 0) EXCEPT !.scoreType = "string"]}

ItemPool ==
    {Item("AAPL", <<"title", "h1">>, x) : x \in PoolScores}
      \cup {Item("MSFT", <<"title", "h1">>, x) : x \in {-ScoreScale, 1}}
      \cup Malformed

ScoreArrives ==
    /\ rateLimits = <<>>
    /\ GET_Start(1, <<"10.0.0.1">>, "1d", <<>>)

ScoreCollected ==
    GET_StocksDone(1, OutcomeWith(Range(req[1].allTickers), {}, {}, FALSE))

ScoreScored ==
    \E items \in SeqsUpTo(ItemPool, MaxItems) :
        GET_LLMDone(1, Completion(JsonContent(items)))

NextScore ==
    \/ ScoreArrives
    \/ ScoreCollected
    \/ ScoreScored

SpecScore == InitPipe /\ [][NextScore]_vars

----------------------------------------------------------------------------
(* Properties of the scoring *)

\* a string stock, a string headline and a number within [-1, 1]
WellFormed(item) ==
    /\ item.isObject
    /\ item.stockType = "string"
    /\ item.headlineType = "string"
    /\ item.scoreType = "number"
    /\ -ScoreScale <= item.sentimentScore
    /\ item.sentimentScore <= ScoreScale

\* the (headline, score) pairs of a sequence of items or of articles
Scored(s) == [i \in DOMAIN s |-> <<s[i].headline, s[i].sentimentScore>>]

\* the well-formed items of the completion that name the stock t
ItemsOf(r, t) ==
    SelectSeq(r.content.items, LAMBDA it : WellFormed(it) /\ it.stock = t)

Answered(s) ==
    Done(s) /\ req[s].method = "GET" /\ req[s].content.form \in {"text", "json"}

\* the content is JSON with an array field headlines holding a valid item
Usable(content) ==
    /\ content.form = "json"
    /\ content.headlines = "array"
    /\ \E k \in DOMAIN content.items : WellFormed(content.items[k])

\* C14: a GET whose completion arrived answers 200, with data, only if the
\* content parsed to an object with an array field headlines of which at
\* least one item passed the validation; otherwise (field missing, not an
\* array, or nothing left after the filter) it answers an error with no data.
C14_NoEmptySuccess ==
    \A s \in Slots :
        Answered(s) =>
            IF Usable(req[s].content)
            THEN req[s].resp.status = 200 /\ req[s].resp.data # <<>>
            ELSE /\ req[s].resp.status = 500
                 /\ req[s].resp.error # ""
                 /\ req[s].resp.data = <<>>

C14_Witness ==
    \E s \in Slots :
        /\ Answered(s)
        /\ req[s].content.form = "json"
        /\ req[s].content.headlines = "array"
        /\ req[s].content.items # <<>>
        /\ ~Usable(req[s].content)
        /\ req[s].resp.error = "No valid sentiment data after filtering"

RECURSIVE TotalScore(_)
\* the sum of the scores of a sequence of items, from its last to its first
TotalScore(items) ==
    IF items = <<>> THEN 0
    ELSE TotalScore(SubSeq(items, 1, Len(items) - 1))
           + items[Len(items)].sentimentScore

\* C15: for every entry of a response, count is the number of valid items of
\* its stock and the length of its articles, and sentimentScore is the sum of
\* the scores of these items divided by that number (the entry's total and
\* count are that sum and that number), whatever the number and the order of
\* the items.
C15_MeanOfValidScores ==
    \A s \in Slots :
        Succeeded(s) =>
            \A i \in DOMAIN req[s].resp.data :
                LET e     == req[s].resp.data[i]
                    items == ItemsOf(req[s], e.stock)
                IN  /\ e.count = Len(items)
                    /\ e.count = Len(e.articles)
                    /\ e.count >= 1
                    /\ e.totalSentiment = TotalScore(items)

C15_Witness ==
    \E s \in Slots :
        /\ Succeeded(s)
        /\ Len(req[s].content.items) = 3
        /\ ~WellFormed(req[s].content.items[2])
        /\ \E i \in DOMAIN req[s].resp.data :
              /\ req[s].resp.data[i].count = 2
              /\ req[s].resp.data[i].totalSentiment = 1 - ScoreScale

----------------------------------------------------------------------------
(* getStockData in detail: the snapshot built from the providers' answers.  *)
(* A JavaScript object is a function from its keys; undefined and null are  *)
(* <<>>, a number n is <<n>>.  Amounts are in thousands, so that 10^9       *)
(* stands for 1e12.                                                         *)

\* obj?.key
Get(obj, key) == IF key \in DOMAIN obj THEN <<obj[key]>> ELSE <<>>

\* value || 0
OrZero(value) == IF value = <<>> THEN 0 ELSE value[1]

\* the fields of details: the module and the key each is read from
DetailSource ==
    [marketCap      |-> <<"summaryDetail", "marketCap">>,
     peRatio        |-> <<"summaryDetail", "trailingPE">>,
     forwardPE      |-> <<"summaryDetail", "forwardPE">>,
     dividendYield  |-> <<"summaryDetail", "dividendYield">>,
     volume         |-> <<"summaryDetail", "volume">>,
     avgVolume      |-> <<"summaryDetail", "averageVolume">>,
     high52Week     |-> <<"summaryDetail", "fiftyTwoWeekHigh">>,
     low52Week      |-> <<"summaryDetail", "fiftyTwoWeekLow">>,
     beta           |-> <<"summaryDetail", "beta">>,
     priceToBook    |-> <<"defaultKeyStatistics", "priceToBook">>,
     earningsGrowth |-> <<"financialData", "earningsGrowth">>,
     revenueGrowth  |-> <<"financialData", "revenueGrowth">>,
     profitMargin   |-> <<"financialData", "profitMargins">>]

DetailFields == DOMAIN DetailSource

\* (quoteSummaryResult as any)?.module || {}
ModuleOf(summary, name) ==
    IF summary # <<>> /\ name \in DOMAIN summary[1] THEN summary[1][name]
    ELSE [k \in {} |-> 0]

\* details read with a default of 0 for a field the provider left out
Details_orZero(summary) ==
    [k \in DetailFields |->
        <<OrZero(Get(ModuleOf(summary, DetailSource[k][1]), DetailSource[k][2]))>>]

\* the details object of the snapshot
Details(summary) ==
    [k \in DetailFields |->
        Get(ModuleOf(summary, DetailSource[k][1]), DetailSource[k][2])]

\* one mapped point: the ISO timestamp and  prices[index] || null
ChartPoint(timestamps, prices, i) ==
    [timestamp |-> <<"iso", timestamps[i]>>,
     price     |-> IF i <= Len(prices) /\ prices[i] # <<>> /\ prices[i][1] # 0
                   THEN prices[i] ELSE <<>>]

\* validChartData: timestamps.map(...).filter(data => data.price !== null)
ValidChartData(timestamps, prices) ==
    SelectSeq([i \in 1..Len(timestamps) |-> ChartPoint(timestamps, prices, i)],
              LAMBDA data : data.price # <<>>)

\* the object getStockData returns; chart is [kind, timestamp, close] with
\* kind "none" (no response or no result), "malformed" (a result without
\* indicators) or "series"
Snapshot(quote, summary, chart) ==
    [price         |-> OrZero(Get(quote, "regularMarketPrice")),
     change        |-> OrZero(Get(quote, "regularMarketChange")),
     changePercent |-> OrZero(Get(quote, "regularMarketChangePercent")),
     chartData     |-> IF chart.kind = "series"
                       THEN ValidChartData(chart.timestamp, chart.close)
                       ELSE <<>>,
     details       |-> Details(summary)]

\* getStockData of the route without retries, for the providers' answers
\* [quote, summary, chart]: quote and summary are [kind, data] with kind
\* "rejected", "null" or "ok".  Every failure is caught and gives null.
FetchOnce(answer) ==
    IF \/ answer.quote.kind = "rejected"
       \/ answer.summary.kind = "rejected"
       \/ answer.quote.kind = "null"
       \/ answer.chart.kind = "malformed"
    THEN <<>>
    ELSE <<Snapshot(answer.quote.data,
                    IF answer.summary.kind = "ok" THEN <<answer.summary.data>>
                    ELSE <<>>,
                    answer.chart)>>

\* NextResponse.json / response.json(): a key whose value is undefined is
\* left out of the text, and reads back as undefined
ToJSON(details) ==
    [k \in {f \in DOMAIN details : details[f] # <<>>} |-> details[k][1]]

\* formatNumber
formatNumber(num) ==
    IF num = <<>> THEN <<"N/A">> ELSE <<"number", num[1]>>

\* formatLargeNumber (amounts in thousands)
formatLargeNumber(num) ==
    IF num = <<>> THEN <<"N/A">>
    ELSE IF num[1] >= 1000000000 THEN <<"T", num[1]>>
    ELSE IF num[1] >= 1000000 THEN <<"B", num[1]>>
    ELSE IF num[1] >= 1000 THEN <<"M", num[1]>>
    ELSE formatNumber(num)

\* formatPercentage
formatPercentage(num) ==
    IF num = <<>> THEN <<"N/A">> ELSE <<"percent", num[1]>>

\* what the page shows for the field k of the details it received
Shown(json, k) ==
    IF k \in {"marketCap", "volume", "avgVolume"}
    THEN formatLargeNumber(Get(json, k))
    ELSE IF k \in {"dividendYield", "profitMargin", "earningsGrowth",
                   "revenueGrowth"}
    THEN formatPercentage(Get(json, k))
    ELSE formatNumber(Get(json, k))

----------------------------------------------------------------------------
(* SpecData: single calls of getStockData, over the providers' answers     *)

ClosePrices == {<<>>, <<0>>, <<5>>}

\* chart results of n timestamps whose close array has up to n elements
ChartSeries ==
    UNION {{[kind |-> "series", timestamp |-> [i \in 1..n |-> 100 + i],
             close |-> c] : c \in SeqsUpTo(ClosePrices, n)} :
           n \in 0..MaxPoints}

NoChart == [kind |-> "none", timestamp |-> <<>>, close |-> <<>>]

MalformedChart == [kind |-> "malformed", timestamp |-> <<>>, close |-> <<>>]

SummaryModules == {DetailSource[k][1] : k \in DetailFields}

\* a quoteSummary result that leaves out the fields of absent and the whole
\* modules of missing, reports 0 for the fields of zero and amount for the
\* other fields
SummaryWith(absent, zero, missing, amount) ==
    [m \in SummaryModules \ missing |->
        [key \in {DetailSource[k][2] :
                    k \in {f \in DetailFields \ absent : DetailSource[f][1] = m}} |->
            IF (CHOOSE k \in DetailFields : DetailSource[k] = <<m, key>>) \in zero
            THEN 0 ELSE amount]]

Amounts == {1, 1000, 1000000, 1000000000}

Summaries ==
    {SummaryWith(A, Z, {}, 1000000) :
        A \in SubsetsUpTo(DetailFields, MaxAbsent),
        Z \in SubsetsUpTo(DetailFields, MaxZero)}
      \cup {SummaryWith({}, {}, {}, a) : a \in Amounts}
      \cup {SummaryWith({}, {}, M, 1) : M \in SUBSET SummaryModules}

FullQuote ==
    [regularMarketPrice |-> 5, regularMarketChange |-> 1,
     regularMarketChangePercent |-> 2]

QuoteData == {FullQuote, [regularMarketPrice |-> 0]}

ProviderAnswer(quoteKind, quote, summaryKind, summary, chart) ==
    [quote   |-> [kind |-> quoteKind, data |-> quote],
     summary |-> [kind |-> summaryKind, data |-> summary],
     chart   |-> chart]

OneSeries ==
    [kind |-> "series", timestamp |-> <<101>>, close |-> << <<5>> >>]

FullSummary == SummaryWith({}, {}, {}, 1)

\* the answers of the providers to one attempt: the chart varies, or the
\* summary, or one of the calls fails
Answers ==
    {ProviderAnswer("ok", q, "ok", FullSummary, c) :
        q \in QuoteData, c \in ChartSeries \cup {NoChart, MalformedChart}}
      \cup {ProviderAnswer("ok", FullQuote, "ok", sm, OneSeries) :
              sm \in Summaries}
      \cup {ProviderAnswer(qk, FullQuote, sk, FullSummary, OneSeries) :
              qk \in {"rejected", "null", "ok"},
              sk \in {"rejected", "null", "ok"}}

DataFetch ==
    \E a \in Answers :
        /\ fetch.pc = "idle"
        /\ fetch' = [NoFetch EXCEPT !.pc = "returned", !.variant = "single",
                                    !.answers = <<a>>,
                                    !.returned = FetchOnce(a)]
        /\ UNCHANGED <<today, apiKey, rateLimits, req, config, sync, tasks,
                       client, ingest>>

DataConsumed ==
    /\ fetch.pc = "returned"
    /\ fetch.variant = "single"
    /\ fetch' = NoFetch
    /\ UNCHANGED <<today, apiKey, rateLimits, req, config, sync, tasks,
                   client, ingest>>

NextData ==
    \/ DataFetch
    \/ DataConsumed

SpecData == InitPipe /\ [][NextData]_vars

----------------------------------------------------------------------------
(* Properties of the snapshot *)

\* getStockData has returned a snapshot
Fetched == fetch.pc = "returned" /\ fetch.returned # <<>>

\* the providers' answers to the attempt that returned
LastAnswer == fetch.answers[Len(fetch.answers)]

RECURSIVE PresentPairs(_, _, _)
\* the (timestamp, close) pairs from index i on whose close is present
PresentPairs(timestamps, close, i) ==
    IF i > Len(timestamps) THEN <<>>
    ELSE (IF i <= Len(close) /\ close[i] # <<>>
          THEN <<[timestamp |-> <<"iso", timestamps[i]>>, price |-> close[i]]>>
          ELSE <<>>)
           \o PresentPairs(timestamps, close, i + 1)

\* C17: the chartData of a snapshot is exactly the provider's (timestamp,
\* close) pairs whose close is present, in their order: a pair with a
\* missing close is removed, a pair with a close (a close of 0 too) is kept
\* as it is.
C17_ChartKeepsPresentPrices ==
    (Fetched /\ LastAnswer.chart.kind = "series")
    => fetch.returned[1].chartData
          = PresentPairs(LastAnswer.chart.timestamp, LastAnswer.chart.close, 1)

\* what the provider gave for the field k of details
Provided(answer, k) ==
    IF answer.summary.kind = "ok"
          /\ DetailSource[k][1] \in DOMAIN answer.summary.data
          /\ DetailSource[k][2] \in DOMAIN answer.summary.data[DetailSource[k][1]]
    THEN <<answer.summary.data[DetailSource[k][1]][DetailSource[k][2]]>>
    ELSE <<>>

\* C18: for each of the 13 fields of details, a field the provider left out
\* is undefined in the snapshot, missing from its JSON text and shown as
\* 'N/A', never as 0; a number the provider gave, 0 included, is in the
\* snapshot and in the JSON text unchanged and is shown as that number.
C18_AbsentIsNotZero ==
    Fetched =>
        \A k \in DetailFields :
            LET given   == Provided(LastAnswer, k)
                details == fetch.returned[1].details
                json    == ToJSON(details)
            IN  IF given = <<>>
                THEN /\ details[k] = <<>>
                     /\ k \notin DOMAIN json
                     /\ Shown(json, k) = <<"N/A">>
                ELSE /\ details[k] = given
                     /\ k \in DOMAIN json /\ json[k] = given[1]
                     /\ Shown(json, k) # <<"N/A">>
                     /\ Shown(json, k)[2] = given[1]

C18_Witness ==
    /\ Fetched
    /\ Provided(LastAnswer, "marketCap") = <<>>
    /\ Provided(LastAnswer, "beta") = <<0>>
    /\ Provided(LastAnswer, "volume") = <<1000000>>
    /\ Shown(ToJSON(fetch.returned[1].details), "marketCap") = <<"N/A">>
    /\ Shown(ToJSON(fetch.returned[1].details), "beta") = <<"number", 0>>
    /\ Shown(ToJSON(fetch.returned[1].details), "volume") = <<"B", 1000000>>

----------------------------------------------------------------------------
(* getStockData with retries (the two later variants of the route)          *)

RetryVariants == {"retry3", "retry2"}

\* const maxRetries: 3 in the variant that waits 2000 * attempt, 2 in the
\* variant that waits 1000 * attempt
maxRetries(variant) == IF variant = "retry3" THEN 3 ELSE 2

\* the factor of retryDelay(factor * attempt)
retryBase(variant) == IF variant = "retry3" THEN 2000 ELSE 1000

\* the try block of one attempt runs to its return statement.  In "retry3"
\* quote and quoteSummary each have .catch(() => null), so only a missing
\* quote throws; in "retry2" a rejection or timeout of either rejects the
\* Promise.all.  A chart result without indicators throws a TypeError.
AttemptOk(variant, answer) ==
    /\ answer.quote.kind = "ok"
    /\ answer.chart.kind # "malformed"
    /\ variant = "retry2" => answer.summary.kind # "rejected"

\* the snapshot an attempt returns
AttemptSnapshot(answer) ==
    Snapshot(answer.quote.data,
             IF answer.summary.kind = "ok" THEN <<answer.summary.data>>
             ELSE <<>>,
             answer.chart)

\* one iteration whose catch block rethrows after the last attempt
RetryStep_rethrow(f, answer) ==
    LET waited == [f EXCEPT !.waits = IF f.attempt > 0
                                      THEN Append(@, retryBase(f.variant) * f.attempt)
                                      ELSE @,
                            !.answers = Append(@, answer)]
    IN  IF AttemptOk(f.variant, answer)
        THEN [waited EXCEPT !.pc = "returned",
                            !.returned = <<AttemptSnapshot(answer)>>]
        ELSE IF f.attempt = maxRetries(f.variant) - 1
        THEN [waited EXCEPT !.pc = "returned", !.threw = TRUE]
        ELSE [waited EXCEPT !.attempt = @ + 1]

\* one iteration of the for loop: the delay before a retry, the attempt, and
\* either the return of the snapshot or the catch block (return null after
\* the last attempt, else the next iteration)
RetryStep(f, answer) ==
    LET waited == [f EXCEPT !.waits = IF f.attempt > 0
                                      THEN Append(@, retryBase(f.variant) * f.attempt)
                                      ELSE @,
                            !.answers = Append(@, answer)]
    IN  IF AttemptOk(f.variant, answer)
        THEN [waited EXCEPT !.pc = "returned",
                            !.returned = <<AttemptSnapshot(answer)>>]
        ELSE IF f.attempt = maxRetries(f.variant) - 1
        THEN [waited EXCEPT !.pc = "returned", !.returned = <<>>]
        ELSE [waited EXCEPT !.attempt = @ + 1]

\* the providers' answers to an attempt of a call with retries
RetryAnswers ==
    {ProviderAnswer(qk, FullQuote, sk, FullSummary, c) :
        qk \in {"rejected", "null", "ok"}, sk \in {"rejected", "null", "ok"},
        c \in {OneSeries, NoChart, MalformedChart}}

\* getStockData is called
RetryCall ==
    \E v \in RetryVariants :
        /\ fetch.pc = "idle"
        /\ fetch' = [NoFetch EXCEPT !.pc = "loop", !.variant = v]
        /\ UNCHANGED <<today, apiKey, rateLimits, req, config, sync, tasks,
                       client, ingest>>

\* an iteration of its loop
RetryAttempt ==
    \E a \in RetryAnswers :
        /\ fetch.pc = "loop"
        /\ fetch.attempt < maxRetries(fetch.variant)
        /\ fetch' = RetryStep(fetch, a)
        /\ UNCHANGED <<today, apiKey, rateLimits, req, config, sync, tasks,
                       client, ingest>>

\* the caller has its result
RetryConsumed ==
    /\ fetch.pc = "returned"
    /\ fetch.variant \in RetryVariants
    /\ fetch' = NoFetch
    /\ UNCHANGED <<today, apiKey, rateLimits, req, config, sync, tasks,
                   client, ingest>>

NextRetry ==
    \/ RetryCall
    \/ RetryAttempt
    \/ RetryConsumed

SpecRetry == InitPipe /\ [][NextRetry]_vars

\* C16: a call of getStockData makes at most maxRetries attempts (3, or 2 in
\* the later variant) and waits base * k milliseconds before attempt k >= 1;
\* it returns the snapshot of the first attempt that succeeds, returns null
\* when all maxRetries attempts fail, and never throws.
C16_BoundedRetries ==
    fetch.variant \in RetryVariants =>
        LET n == Len(fetch.answers)
        IN  /\ n <= maxRetries(fetch.variant)
            /\ fetch.waits = [k \in 1..(IF n = 0 THEN 0 ELSE n - 1) |->
                                retryBase(fetch.variant) * k]
            /\ ~fetch.threw
            /\ \A k \in 1..(n - 1) : ~AttemptOk(fetch.variant, fetch.answers[k])
            /\ fetch.pc = "loop"
                  => /\ n = fetch.attempt
                     /\ n < maxRetries(fetch.variant)
                     /\ \A k \in 1..n : ~AttemptOk(fetch.variant, fetch.answers[k])
            /\ fetch.pc = "returned"
                  => /\ n >= 1
                     /\ IF AttemptOk(fetch.variant, fetch.answers[n])
                        THEN fetch.returned = <<AttemptSnapshot(fetch.answers[n])>>
                        ELSE /\ fetch.returned = <<>>
                             /\ n = maxRetries(fetch.variant)

C16_Witness ==
    /\ fetch.variant = "retry3"
    /\ fetch.pc = "returned"
    /\ fetch.returned # <<>>
    /\ fetch.waits = <<2000, 4000>>
    /\ fetch.answers[1].quote.kind = "rejected"
    /\ fetch.answers[2].quote.kind = "null"

----------------------------------------------------------------------------
(* POST /api/sync-tickers                                                   *)

\* the longest customTickers array
MaxTickers == 2

\* JSON values that can be elements of customTickers
TickerStrings == {<<"string", "AAPL">>, <<"string", "PLTR">>}
NonStrings == {<<"number", "7">>, <<"null", "">>}

\* typeof ticker === 'string'
IsString(ticker) == ticker[1] = "string"

\* the request bodies: text for which req.json() or the destructuring
\* throws, and JSON values whose customTickers is missing, not an array, or
\* an array
SyncBodies ==
    {[kind |-> "unparsable", type |-> "", items |-> <<>>]}
    \cup {[kind |-> "json", type |-> t, items |-> <<>>] :
            t \in {"undefined", "string", "number", "object"}}
    \cup {[kind |-> "json", type |-> "array", items |-> s] :
            s \in SeqsUpTo(TickerStrings \cup NonStrings, MaxTickers)}

\* Array.isArray(customTickers)
IsArray(body) == body.type = "array"

\* the handler persisting the array as submitted
SyncHandle_noFilter(body, writes, file) ==
    IF body.kind = "unparsable"
    THEN [status |-> 500, error |-> "Failed to sync tickers", file |-> file]
    ELSE IF ~IsArray(body)
    THEN [status |-> 400,
          error |-> "Invalid input: customTickers must be an array",
          file |-> file]
    ELSE IF ~writes
    THEN [status |-> 500, error |-> "Failed to sync tickers", file |-> file]
    ELSE [status |-> 200, error |-> "", file |-> <<body.items>>]

\* the handler: its answer and the configuration file it leaves
SyncHandle(body, writes, file) ==
    IF body.kind = "unparsable"
    THEN [status |-> 500, error |-> "Failed to sync tickers", file |-> file]
    ELSE IF ~IsArray(body)
    THEN [status |-> 400,
          error |-> "Invalid input: customTickers must be an array",
          file |-> file]
    ELSE IF ~writes
    THEN [status |-> 500, error |-> "Failed to sync tickers", file |-> file]
    ELSE [status |-> 200, error |-> "",
          file |-> <<SelectSeq(body.items, IsString)>>]

\* a POST /api/sync-tickers is handled
SyncPOST ==
    \E body \in SyncBodies, writes \in BOOLEAN :
        LET out == SyncHandle(body, writes, config)
        IN  /\ sync.pc = "idle"
            /\ sync' = [pc |-> "done", body |-> <<body>>, status |-> out.status]
            /\ config' = out.file
            /\ UNCHANGED <<today, apiKey, rateLimits, req, fetch, tasks,
                           client, ingest>>

\* the client has its answer
SyncAnswered ==
    /\ sync.pc = "done"
    /\ sync' = NoSync
    /\ UNCHANGED <<today, apiKey, rateLimits, req, fetch, config, tasks,
                   client, ingest>>

NextSync ==
    \/ SyncPOST
    \/ SyncAnswered

SpecSync == InitPipe /\ [][NextSync]_vars

\* the request being answered by this step
Synced == sync.pc = "idle" /\ sync'.pc = "done"
SyncedBody == sync'.body[1]
OnlyStrings(body) ==
    /\ body.kind = "json"
    /\ body.type = "array"
    /\ \A i \in 1..Len(body.items) : body.items[i][1] = "string"

----------------------------------------------------------------------------
(* SpecNews: one GET request, over search results that may repeat a title   *)

\* the most news items a search result holds
MaxNews == 2

\* news items of a search result: two titles, with and without a link
NewsItems ==
    {[title |-> <<"title", "h1">>, link |-> "l1"],
     [title |-> <<"title", "h2">>, link |-> ""]}

\* the tickers whose search results vary: a default one and the caller's
NewsFocus == {DEFAULT_TICKERS[1], "NFLX"}

\* the outcome of the per-ticker tasks with the given search results for the
\* tickers of NewsFocus
NewsOutcome(tickers, found) ==
    [t \in tickers |->
        [providerOk |-> TRUE,
         search     |-> [ok |-> TRUE,
                         news |-> IF t \in NewsFocus THEN found[t] ELSE OneNews]]]

NewsArrives ==
    \E ct \in {<<>>, <<"NFLX">>} :
        /\ rateLimits = <<>>
        /\ GET_Start(1, <<"10.0.0.1">>, "1d", ct)

NewsCollected ==
    \E found \in [NewsFocus -> SeqsUpTo(NewsItems, MaxNews)] :
        GET_StocksDone(1, NewsOutcome(Range(req[1].allTickers), found))

NewsScored ==
    /\ req[1].pc = "llm"
    /\ \E l \in FewReplies(PromptLines(StockNews(req[1].stockResults))) :
          GET_LLMDone(1, l)

NextNews ==
    \/ NewsArrives
    \/ NewsCollected
    \/ NewsScored

SpecNews == InitPipe /\ [][NextNews]_vars

\* C20: among the headlines a request has collected, no two headlines of the
\* same ticker have the same text, whatever the search results contain.
C20_NoDuplicateHeadlines ==
    \A s \in Slots :
        Collected(s) =>
            \A t \in Range(req[s].allTickers) :
                LET hs == HeadlinesOf(req[s], t)
                IN  \A i, j \in 1..Len(hs) :
                        i # j => hs[i].headline # hs[j].headline

----------------------------------------------------------------------------
(* Properties of the tickers of a response *)

\* C21: every ticker of a GET success response is a default ticker or one
\* of the caller's tickers; a ticker that only the LLM's answer names is
\* never returned.
C21_OnlyRequestedTickers ==
    \A s \in Slots :
        Succeeded(s) =>
            Stocks(req[s].resp.data)
               \subseteq Range(DEFAULT_TICKERS) \cup Range(req[s].customTickers)

\* the POST requests in slots s and t are of one client, were both admitted
\* when one request of the quota was left, and have both gone past
\* incrementRateLimit
BothAdmittedOnLastSlot(s, t) ==
    /\ s # t
    /\ req[s].method = "POST" /\ req[t].method = "POST"
    /\ req[s].ip = req[t].ip
    /\ req[s].remaining = 1 /\ req[t].remaining = 1
    /\ req[s].pc = "stocks" /\ req[t].pc = "stocks"

\* C22: the admission check and the increment of a POST are separate steps
\* around the await of the body: two POST requests of one client that were
\* both checked while one request of the quota was left are both admitted,
\* and once both have incremented the stored count is above the quota.
C22_BothAdmittedPastQuota ==
    \A s, t \in Slots :
        BothAdmittedOnLastSlot(s, t)
        => rateLimits[req[s].ip].count > MAX_REQUESTS_PER_DAY

C22_Witness ==
    \E s, t \in Slots :
        /\ BothAdmittedOnLastSlot(s, t)
        /\ rateLimits[req[s].ip].count = MAX_REQUESTS_PER_DAY + 1

\* the step is the entry of a request in slot s: its handler runs from the
\* admission check to its first await or to its response
Enters(s) == req[s].pc = "idle" /\ req'[s].pc # "idle"

\* the entry step of slot s went through incrementRateLimit
Incremented(s) == req'[s].method = "GET" /\ req'[s].pc = "stocks"

\* C23: the admission check changes the stored record only when it creates
\* it or resets it on a date change: for a record with today's date it leaves
\* lastReset and count as they are (the count of an admitted GET then grows
\* by the increment, by one), and a request rejected with 429 by the check
\* leaves the whole map unchanged and issues no provider call.
C23_CheckOnlyCreatesOrResets ==
    [][\A s \in Slots :
          Enters(s) =>
            LET ip == req'[s].ip
            IN  /\ (ip \in DOMAIN rateLimits /\ rateLimits[ip].lastReset = today)
                     => /\ rateLimits'[ip].lastReset = rateLimits[ip].lastReset
                        /\ rateLimits'[ip].count =
                              rateLimits[ip].count
                                + (IF Incremented(s) THEN 1 ELSE 0)
                /\ (rateLimits' # rateLimits /\ ~Incremented(s))
                     => \/ ip \notin DOMAIN rateLimits
                        \/ rateLimits[ip].lastReset # today
                /\ req'[s].resp.status = 429
                     => /\ rateLimits' = rateLimits
                        /\ req'[s].pc = "done"
                        /\ req'[s].issued = {}]_vars

C23_Witness ==
    \E s \in Slots :
        /\ Done(s)
        /\ req[s].resp.status = 429
        /\ req[s].issued = {}
        /\ req[s].ip = "unknown"
        /\ DOMAIN rateLimits = {"unknown", "10.0.0.1"}
        /\ rateLimits["10.0.0.1"].count = 2

----------------------------------------------------------------------------
(* SpecTasks: the per-ticker tasks of one GET request, timer by timer       *)

\* setTimeout(() => resolve(processStock(ticker)), index * 200), for the
\* index (from 0) of the ticker in allTickers
StaggerDelay(index) == index * 200

\* a GET arrives: the handler runs to the Promise.all, having scheduled one
\* timer per ticker
TaskDispatch ==
    \E ct \in {<<>>, <<"NFLX">>} :
        LET e == GET_entry(rateLimits, today, apiKey, <<"10.0.0.1">>, "1d", ct)
            n == Len(e.req.allTickers)
        IN  /\ req[1].pc = "idle"
            /\ rateLimits = <<>>
            /\ rateLimits' = e.map
            /\ req' = [req EXCEPT ![1] = e.req]
            /\ tasks' = [pc      |-> "scheduled",
                         delays  |-> [i \in 1..n |-> StaggerDelay(i - 1)],
                         fired   |-> 0,
                         outcome |-> [i \in 1..n |-> <<>>]]
            /\ UNCHANGED <<today, apiKey, fetch, config, sync, client, ingest>>

\* the next timer fires (timers fire in the order of their delays) and
\* processStock of its ticker starts
TimerFires ==
    /\ tasks.pc = "scheduled"
    /\ tasks.fired < Len(tasks.delays)
    /\ tasks' = [tasks EXCEPT !.fired = @ + 1]
    /\ UNCHANGED <<today, apiKey, rateLimits, req, fetch, config, sync,
                   client, ingest>>

\* processStock of a started ticker settles, in any order: with news, or
\* with the search rejected and the market data failing
TaskSettles ==
    \E i \in 1..tasks.fired :
        \E o \in {[providerOk |-> TRUE,
                   search |-> [ok |-> TRUE, news |-> OneNews]],
                  [providerOk |-> FALSE,
                   search |-> [ok |-> FALSE, news |-> <<>>]]} :
            /\ tasks.pc = "scheduled"
            /\ tasks.outcome[i] = <<>>
            /\ tasks' = [tasks EXCEPT !.outcome[i] = <<o>>]
            /\ UNCHANGED <<today, apiKey, rateLimits, req, fetch, config,
                           sync, client, ingest>>

\* the Promise.all resolves, when every promise has: the handler goes on to
\* the chat completion call or to its catch block
TasksJoin ==
    /\ tasks.pc = "scheduled"
    /\ \A i \in DOMAIN tasks.outcome : tasks.outcome[i] # <<>>
    /\ tasks' = [tasks EXCEPT !.pc = "joined"]
    /\ req' = [req EXCEPT ![1] =
                 GET_afterStocks(@,
                    [t \in Range(req[1].allTickers) |->
                        tasks.outcome[CHOOSE i \in DOMAIN tasks.outcome :
                                         req[1].allTickers[i] = t][1]])]
    /\ UNCHANGED <<today, apiKey, rateLimits, fetch, config, sync, client,
                   ingest>>

TasksScored ==
    /\ req[1].pc = "llm"
    /\ \E l \in FewReplies(PromptLines(StockNews(req[1].stockResults))) :
          GET_LLMDone(1, l)

NextTasks ==
    \/ TaskDispatch
    \/ TimerFires
    \/ TaskSettles
    \/ TasksJoin
    \/ TasksScored

SpecTasks == InitPipe /\ [][NextTasks]_vars

\* the lines 'TICKER: headline' of the headlines that the settled tasks
\* collected, ticker by ticker
CollectedLines ==
    FlatMap([i \in DOMAIN tasks.outcome |->
               IF tasks.outcome[i] = <<>> THEN <<>>
               ELSE [j \in DOMAIN tasks.outcome[i][1].search.news |->
                       <<req[1].allTickers[i],
                         tasks.outcome[i][1].search.news[j].title>>]], 1)

\* C24: a GET issues at most one LLM call; the task of ticker i (from 0) is
\* dispatched 200 * i ms after the start; the LLM call is issued only when
\* the tasks of all tickers of the union have completed, with a prompt that
\* lists every collected headline as 'TICKER: headline'; when no headline was
\* collected, no LLM call is issued.
C24_OneCallAfterAllTasks ==
    LET n == Len(req[1].allTickers)
    IN  /\ Len(req[1].prompts) <= 1
        /\ ("llm" \in req[1].issued) <=> (req[1].prompts # <<>>)
        /\ tasks.pc # "idle"
              => /\ n = Len(AllTickers(req[1].customTickers))
                 /\ tasks.delays = [i \in 1..n |-> 200 * (i - 1)]
        /\ req[1].prompts # <<>>
              => /\ tasks.fired = n
                 /\ \A i \in 1..n : tasks.outcome[i] # <<>>
                 /\ CollectedLines # <<>>
                 /\ req[1].prompts[1] = CollectedLines
        /\ tasks.pc # "joined" => req[1].prompts = <<>>
        /\ (tasks.pc = "joined" /\ CollectedLines = <<>>)
              => (req[1].prompts = <<>> /\ req[1].pc = "done")

C24_Witness ==
    /\ req[1].pc = "done"
    /\ Len(req[1].prompts) = 1
    /\ Len(req[1].prompts[1]) = 2
    /\ req[1].prompts[1][2][1] = "NFLX"
    /\ tasks.delays[6] = 1000
    /\ tasks.outcome[1][1].search.news = <<>>

\* C25: the market-data fetch of every ticker of a GET with the valid range
\* r is made with the range r, not with a default range.
C25_FetchUsesRequestedRange ==
    \A s \in Slots :
        (req[s].method = "GET" /\ Collected(s))
        => \A i \in DOMAIN req[s].stockResults :
              req[s].stockResults[i].stockData # <<>>
                 => req[s].stockResults[i].stockData[1].range = req[s].range

----------------------------------------------------------------------------
(* SpecClient: the page of one browser and the server, over several days    *)

\* fetch(`/api/stocks?${params}`) reaching the handler from the browser of cl
ClientFetch(cl, kind, tickersParam) ==
    LET e == GET_entry(rateLimits, today, apiKey, <<"10.0.0.1">>, cl.range,
                       tickersParam)
    IN  /\ rateLimits' = e.map
        /\ req' = [req EXCEPT ![1] = e.req]
        /\ client' = [cl EXCEPT !.pending = kind, !.since = <<today>>]

\* updateRemainingCalls(count)
updateRemainingCalls(cl, count) ==
    [cl EXCEPT !.stored = <<count>>, !.lastResetDate = <<today>>]

\* the page is opened or reloaded: the effect that resets remainingCalls on a
\* new day, then the effect that loads the initial data
ClientLoads ==
    LET reset == [NoClient EXCEPT
                    !.open = TRUE,
                    !.custom = client.custom,
                    !.analysed = client.analysed,
                    !.analysisTimestamp = client.analysisTimestamp,
                    !.stored = IF client.lastResetDate # <<today>>
                               THEN <<MAX_REQUESTS_PER_DAY>> ELSE client.stored,
                    !.lastResetDate = <<today>>]
    IN  /\ client.pending = ""
        /\ req[1].pc = "idle"
        /\ IF client.analysed # <<>> /\ client.analysisTimestamp = <<today>>
           THEN /\ client' = [reset EXCEPT !.stocks = client.analysed[1]]
                /\ UNCHANGED <<rateLimits, req>>
           ELSE ClientFetch(reset, "load", DEFAULT_TICKERS \o client.custom)
        /\ UNCHANGED <<today, apiKey, fetch, config, sync, tasks, ingest>>

\* Refresh Analysis: fetchStocks
ClientRefresh ==
    LET currentRemaining == IF client.stored = <<>> THEN MAX_REQUESTS_PER_DAY
                            ELSE client.stored[1]
        existing == IF client.analysed = <<>> THEN {} ELSE client.analysed[1]
        tickersToAnalyze ==
            SelectSeq(DEFAULT_TICKERS \o client.custom,
                      LAMBDA t : t \notin existing)
    IN  /\ client.open
        /\ client.pending = ""
        /\ req[1].pc = "idle"
        /\ IF currentRemaining = 0
           THEN /\ client' =
                     [client EXCEPT
                        !.error = "No refreshes left today. Showing last analysis.",
                        !.stocks = IF client.analysed = <<>> THEN @
                                   ELSE client.analysed[1]]
                /\ UNCHANGED <<rateLimits, req>>
           ELSE IF tickersToAnalyze = <<>>
           THEN /\ client' = [client EXCEPT !.error = "", !.stocks = existing]
                /\ UNCHANGED <<rateLimits, req>>
           ELSE ClientFetch([client EXCEPT !.error = ""], "refresh",
                            tickersToAnalyze)
        /\ UNCHANGED <<today, apiKey, fetch, config, sync, tasks, ingest>>

\* another time range is selected: the effect on selectedRange calls
\* updateGraphs when stocks are shown
ClientChangesRange ==
    \E r \in {"1d", "5d"} :
        /\ client.open
        /\ client.pending = ""
        /\ req[1].pc = "idle"
        /\ r # client.range
        /\ IF client.stocks # {}
           THEN ClientFetch([client EXCEPT !.range = r], "graphs", client.custom)
           ELSE /\ client' = [client EXCEPT !.range = r]
                /\ UNCHANGED <<rateLimits, req>>
        /\ UNCHANGED <<today, apiKey, fetch, config, sync, tasks, ingest>>

\* addCustomTicker
ClientAddsTicker ==
    /\ client.open
    /\ client.pending = ""
    /\ client.custom = <<>>
    /\ client' = [client EXCEPT !.custom = <<"NFLX">>]
    /\ UNCHANGED <<today, apiKey, rateLimits, req, fetch, config, sync, tasks,
                   ingest>>

\* the response arrives at the page: the continuation of the call that
\* awaited it
ClientReceives ==
    LET resp     == req[1].resp
        failed   == resp.error # ""
        tickers  == Stocks(resp.data)
        existing == IF client.analysed = <<>> THEN {} ELSE client.analysed[1]
        settled  == [client EXCEPT !.pending = "", !.since = <<>>]
    IN  /\ client.pending # ""
        /\ req[1].pc = "done"
        /\ req' = [req EXCEPT ![1] = IdleReq]
        /\ client' =
              IF client.pending = "load"
              THEN IF failed THEN settled
                   ELSE updateRemainingCalls(
                           [settled EXCEPT !.stocks = tickers,
                                           !.analysed = <<tickers>>,
                                           !.analysisTimestamp = client.since],
                           resp.remaining)
              ELSE IF client.pending = "refresh"
              THEN IF failed
                   THEN [settled EXCEPT
                           !.error = IF resp.status = 200 THEN resp.error
                                     ELSE "Failed to fetch data"]
                   ELSE LET updated ==
                              (existing \cap Range(client.custom)) \cup tickers
                        IN  updateRemainingCalls(
                               [settled EXCEPT !.stocks = updated,
                                               !.analysed = <<updated>>,
                                               !.analysisTimestamp = <<today>>],
                               resp.remaining)
              ELSE IF failed
                   THEN [settled EXCEPT !.error = "Failed to fetch data"]
                   ELSE settled
        /\ UNCHANGED <<today, apiKey, rateLimits, fetch, config, sync, tasks,
                       ingest>>

\* midnight, while the page awaits no response
ClientTick == client.pending = "" /\ Tick

NextClient ==
    \/ ClientLoads
    \/ ClientRefresh
    \/ ClientChangesRange
    \/ ClientAddsTicker
    \/ ClientReceives
    \/ GetCollected
    \/ GetScored
    \/ ClientTick

SpecClient == InitPipe /\ [][NextClient]_vars

\* the quota the server would report to the browser's next request
ServerRemaining == getRateLimit(rateLimits, "10.0.0.1", today).remaining

\* the page is open and awaits no response
Quiet == client.open /\ client.pending = "" /\ req[1].pc = "idle"

\* C26: whenever the page is at rest after a sequence of loads, refreshes
\* and changes of the time range, its stored remainingCalls equals the
\* server's remaining quota of the client; with remainingCalls 0 fetchStocks
\* sends no request and shows the cached analysis; the first load of a new
\* day resets remainingCalls to 5.
C26_ClientMirrorsServer ==
    [][/\ Quiet' => client'.stored = <<ServerRemaining'>>
       /\ (Quiet /\ client.stored = <<0>> /\ client'.error # client.error)
             => (req' = req /\ rateLimits' = rateLimits
                   /\ client.analysed # <<>>
                         => client'.stocks = client.analysed[1])
       /\ (~client.open /\ client'.open /\ client.lastResetDate # <<today>>
             /\ client'.pending = "")
             => client'.stored = <<MAX_REQUESTS_PER_DAY>>]_vars

----------------------------------------------------------------------------
(* SpecRaceGet: concurrent GET requests of one client, over several days    *)

NextRaceGet ==
    \/ RaceGetArrives
    \/ RaceGetCollected
    \/ RaceGetScored
    \/ Delivered
    \/ Tick

SpecRaceGet == Init /\ [][NextRaceGet]_vars

\* C27: GET has no await between getRateLimit and incrementRateLimit, so
\* under every interleaving of GET requests alone the stored count of a
\* client stays within 0..5, and on the day of its record it equals the
\* number of requests admitted: it never exceeds the quota.
C27_GetNeverExceedsQuota ==
    \A k \in DOMAIN rateLimits :
        /\ rateLimits[k].count \in 0..MAX_REQUESTS_PER_DAY
        /\ \A s \in Slots :
              (req[s].method = "GET" /\ req[s].ip = k
                 /\ req[s].pc \in {"stocks", "llm"})
              => req[s].remaining \in 1..MAX_REQUESTS_PER_DAY

C27_Witness ==
    /\ \A s \in Slots : req[s].method = "GET" /\ req[s].pc \in {"stocks", "llm"}
    /\ req[1].remaining = 2
    /\ req[2].remaining = 1
    /\ rateLimits[req[1].ip].count = MAX_REQUESTS_PER_DAY

\* C28: no two entries of a GET success response have the same ticker,
\* whatever items the LLM's answer holds and however often the caller lists
\* a ticker.
C28_OneEntryPerTicker ==
    \A s \in Slots :
        Succeeded(s) =>
            \A i, j \in DOMAIN req[s].resp.data :
                i # j => req[s].resp.data[i].stock # req[s].resp.data[j].stock

C28_Witness ==
    \E s \in Slots :
        /\ Succeeded(s)
        /\ req[s].customTickers = <<"AAPL", "AAPL">>
        /\ \E i \in DOMAIN req[s].resp.data :
              /\ req[s].resp.data[i].stock = "AAPL"
              /\ req[s].resp.data[i].count = 2

\* C29: a step of a request of one client key leaves the record of every
\* other key as it is, and the keys are 'unknown' for requests without an
\* x-forwarded-for header and the first part of the header otherwise.
C29_OtherKeysUntouched ==
    [][/\ \A s \in Slots :
            (req'[s] # req[s] /\ req'[s].pc # "idle")
            => \A b \in DOMAIN rateLimits \ {req'[s].ip} :
                  b \in DOMAIN rateLimits' /\ rateLimits'[b] = rateLimits[b]
       /\ DOMAIN rateLimits' \subseteq {"unknown", "10.0.0.1"}]_vars

C29_Witness ==
    /\ DOMAIN rateLimits = {"unknown", "10.0.0.1"}
    /\ rateLimits["unknown"] = [count |-> 3, lastReset |-> FirstDate]
    /\ rateLimits["10.0.0.1"].count = 1
    /\ rateLimits["10.0.0.1"].lastReset # FirstDate

----------------------------------------------------------------------------
(* SpecIngest: one GET /api/ingest, ticker by ticker                        *)

\* what the services do for one ticker: recent says that the vector store
\* holds a document of the last 90 days, fetches that the filing can be
\* fetched from the SEC, stores that the vector store accepts the chunks
IngestEnv ==
    {[recent |-> TRUE,  fetches |-> TRUE,  stores |-> TRUE],
     [recent |-> FALSE, fetches |-> FALSE, stores |-> TRUE],
     [recent |-> FALSE, fetches |-> TRUE,  stores |-> FALSE],
     [recent |-> FALSE, fetches |-> TRUE,  stores |-> TRUE]}

\* DocumentIngestor.processCompany(symbol): its catch block logs every
\* error and returns.  The result says what was done.
processCompany(env) ==
    IF env.recent THEN [fetched |-> FALSE, stored |-> FALSE, threw |-> FALSE]
    ELSE IF ~env.fetches
    THEN [fetched |-> FALSE, stored |-> FALSE, threw |-> FALSE]
    ELSE [fetched |-> TRUE, stored |-> env.stores, threw |-> FALSE]

\* the async function that GET maps over tickersToProcess, settled
IngestTask(symbol, env) ==
    IF env.recent
    THEN [env |-> env, status |-> "fulfilled", result |-> <<"Skipped", symbol>>,
          fetched |-> FALSE, stored |-> FALSE]
    ELSE LET done == processCompany(env)
         IN  IF done.threw
             THEN [env |-> env, status |-> "rejected",
                   result |-> <<"Error", symbol>>,
                   fetched |-> done.fetched, stored |-> done.stored]
             ELSE [env |-> env, status |-> "fulfilled",
                   result |-> <<"Processed", symbol>>,
                   fetched |-> done.fetched, stored |-> done.stored]

\* GET /api/ingest arrives: createIngestor, updateCustomTickers when the
\* tickers parameter names any, getAllTickers, and the dispatch of the tasks
IngestArrives ==
    \E tickersParam \in {<<>>, <<"NFLX">>}, ready \in BOOLEAN :
        LET written == IF tickersParam = <<>> THEN config
                       ELSE <<[i \in DOMAIN tickersParam |->
                                 <<"string", tickersParam[i]>>]>>
            custom  == IF written = <<>> THEN <<>>
                       ELSE [i \in DOMAIN written[1] |-> written[1][i][2]]
            all     == Dedupe(DEFAULT_TICKERS \o custom, {})
        IN  /\ ingest.pc = "idle"
            /\ IF ready
               THEN /\ config' = written
                    /\ ingest' = [NoIngest EXCEPT
                                    !.pc = "running", !.tickers = all,
                                    !.settled = [i \in DOMAIN all |-> <<>>]]
               ELSE /\ config' = config
                    /\ ingest' = [NoIngest EXCEPT !.pc = "done", !.status = 500]
            /\ UNCHANGED <<today, apiKey, rateLimits, req, fetch, sync, tasks,
                           client>>

\* the task of one ticker settles
IngestSettles ==
    \E i \in DOMAIN ingest.settled, env \in IngestEnv :
        /\ ingest.pc = "running"
        /\ ingest.settled[i] = <<>>
        /\ ingest' = [ingest EXCEPT
                        !.settled[i] = <<IngestTask(ingest.tickers[i], env)>>]
        /\ UNCHANGED <<today, apiKey, rateLimits, req, fetch, config, sync,
                       tasks, client>>

\* Promise.allSettled resolves: processedResults and the response
IngestResponds ==
    /\ ingest.pc = "running"
    /\ \A i \in DOMAIN ingest.settled : ingest.settled[i] # <<>>
    /\ ingest' = [ingest EXCEPT
                    !.pc = "done", !.status = 200,
                    !.results = [i \in DOMAIN ingest.settled |->
                                   [symbol |-> ingest.tickers[i],
                                    status |-> ingest.settled[i][1].status,
                                    result |-> ingest.settled[i][1].result]]]
    /\ UNCHANGED <<today, apiKey, rateLimits, req, fetch, config, sync, tasks,
                   client>>

NextIngest ==
    \/ IngestArrives
    \/ IngestSettles
    \/ IngestResponds

SpecIngest == InitPipe /\ [][NextIngest]_vars

\* C30: in the response of GET /ingest, a ticker reported as fulfilled with
\* 'Processed SYMBOL' had its filing fetched and stored in the vector store
\* during the request; a ticker whose fetch or store failed is reported with
\* another outcome; and the outcome of a ticker depends on nothing but what
\* the services did for that ticker.
C30_ProcessedMeansStored ==
    (ingest.pc = "done" /\ ingest.status = 200) =>
        \A i \in DOMAIN ingest.results :
            LET r == ingest.results[i]
                t == ingest.settled[i][1]
                processed == r.status = "fulfilled"
                               /\ r.result = <<"Processed", r.symbol>>
            IN  /\ processed => (t.fetched /\ t.stored)
                /\ (~t.env.recent /\ ~(t.env.fetches /\ t.env.stores))
                      => ~processed
                /\ \A j \in DOMAIN ingest.results :
                      ingest.settled[j][1].env = t.env
                         => /\ ingest.results[j].status = r.status
                            /\ ingest.results[j].result[1] = r.result[1]

====
